---- MODULE Spec2Model ----
(***************************************************************************)
(* A model of the heracles codec framework: scalar leaf codecs, the Array  *)
(* codec, and the Struct composition engine (class-body assembly, instance *)
(* construction, serialize / deserialize / compare / byte size).           *)
(*                                                                         *)
(* Python values are modelled as follows: an int is an integer, a 1-char   *)
(* str is its code point, a tuple or a str of several characters is a      *)
(* sequence.  A raised exception is a result record whose err field holds  *)
(* the name of the exception class the code raises.                        *)
(***************************************************************************)
EXTENDS Integers, Sequences, FiniteSets, TLC

VARIABLES
    structs,    \* the struct types created so far, in creation order
    classdict,  \* the class body being executed (MetaDict from __prepare__)
    self,       \* the codec instance the value-level operations act on
    last        \* the last operation performed: its name, inputs and outcome

vars == <<structs, classdict, self, last>>

(***************************************************************************)
(* Bounds of the model.                                                    *)
(***************************************************************************)
MaxCount == 2       \* largest array max_count (array_size.stop) declared
MaxOwn == 2         \* own members declared in one class body
MaxRaw == 4         \* longest raw input offered to a struct decode
MaxLiterals == 2    \* literals declared in one enum class body
MaxBits == 3        \* widest BitSizeValidator constructed

(***************************************************************************)
(* Results of operations.                                                  *)
(***************************************************************************)
Ok(v) == [ok |-> TRUE, err |-> "", v |-> v]
Raise(e) == [ok |-> FALSE, err |-> e, v |-> <<>>]

RECURSIVE Flatten(_)
Flatten(ss) == IF ss = <<>> THEN <<>> ELSE Head(ss) \o Flatten(Tail(ss))

Max(a, b) == IF a >= b THEN a ELSE b

\* _utils.last: next(reversed(it)); StopIteration on an empty iterable.
last_(it) == IF it = <<>> THEN Raise("StopIteration") ELSE Ok(it[Len(it)])

\* _utils.iter_chunks: it[i:i+size] for i in range(0, len(it), size)
iter_chunks(it, size) ==
    [i \in 1..((Len(it) + size - 1) \div size) |->
        SubSeq(it, (i - 1) * size + 1,
               IF i * size <= Len(it) THEN i * size ELSE Len(it))]

(***************************************************************************)
(* validators.py                                                           *)
(***************************************************************************)
\* IntRangeValidator.__init__: max is stored exclusive.
IntRangeValidator(min_val, max_val, inclusive) ==
    [min |-> min_val, max |-> max_val + (IF inclusive THEN 1 ELSE 0)]

\* IntRangeValidator.__call__: TRUE iff no ValueError is raised.
IntRangeValidator_call(validator, value) ==
    validator.min <= value /\ value < validator.max

\* AsciiCharValidator.__call__ on a 1-char str given by its code point:
\* value.encode('ascii') raises (a ValueError) outside 0..127.
AsciiCharValidator_call(value) == value >= 0 /\ value < 128

(***************************************************************************)
(* scalars.py.  A scalar codec instance is [kind, cls, value]; value is    *)
(* the instance's default.                                                 *)
(***************************************************************************)
Scalar(cls, value) == [kind |-> "Scalar", cls |-> cls, value |-> value]

\* class u8(Scalar, fmt='B'), class u16_be(Scalar, fmt='H'),
\* class char(Scalar, fmt='c'), class PadByte(u8)
fmt(cls) == CASE cls \in {"u8", "PadByte"} -> "B"
              [] cls \in {"u16_be", "u16_le"} -> "H"
              [] cls = "char" -> "c"

endianness(cls) == CASE cls = "u16_be" -> ">"
                     [] cls = "u16_le" -> "<"
                     [] OTHER -> "="

\* ScalarMetadata._FORMATTERS_INFO[fmt][0]
Scalar_bytesize(cls) == CASE fmt(cls) = "c" -> 1
                          [] fmt(cls) = "B" -> 1
                          [] fmt(cls) = "H" -> 2

\* ScalarMetadata._FORMATTERS_INFO[fmt][1], called on value
metadata_validator(cls, value) ==
    CASE fmt(cls) = "c" -> AsciiCharValidator_call(value)
      [] fmt(cls) = "B" -> IntRangeValidator_call(IntRangeValidator(0, 255, TRUE), value)
      [] fmt(cls) = "H" -> IntRangeValidator_call(IntRangeValidator(0, 65535, TRUE), value)

\* PadByte.__ishidden__ / SerializerMeta.__ishidden__
Scalar_ishidden(cls) == cls = "PadByte"

\* Scalar._heracles_validate_ with PadByte's override
Scalar_validate(s, value) ==
    IF ~metadata_validator(s.cls, value) THEN Raise("ValueError")
    ELSE IF s.cls = "PadByte" /\ value # s.value THEN Raise("ValueError")
    ELSE Ok(value)

\* struct.pack(fmt_spec, value) for a value in range
pack(cls, value) ==
    CASE fmt(cls) = "H" /\ endianness(cls) = ">" -> <<value \div 256, value % 256>>
      [] fmt(cls) = "H" /\ endianness(cls) = "<" -> <<value % 256, value \div 256>>
      [] OTHER -> <<value>>

\* struct.unpack(fmt_spec, raw_data)[0]; struct.error on a wrong length
unpack(cls, raw_data) ==
    IF Len(raw_data) # Scalar_bytesize(cls) THEN Raise("struct.error")
    ELSE CASE fmt(cls) = "H" /\ endianness(cls) = ">" -> Ok(raw_data[1] * 256 + raw_data[2])
           [] fmt(cls) = "H" /\ endianness(cls) = "<" -> Ok(raw_data[2] * 256 + raw_data[1])
           [] OTHER -> Ok(raw_data[1])

\* Scalar.serialize_value (char.serialize_value encodes the str first)
Scalar_serialize_value(s, value) ==
    IF ~Scalar_validate(s, value).ok THEN Raise("ValueError")
    ELSE Ok(pack(s.cls, value))

\* Scalar.serialize: serialize_value(self.value)
Scalar_serialize(s) == Scalar_serialize_value(s, s.value)

\* b'' as returned by PadByte.deserialize
EmptyBytes == <<>>

\* Scalar.deserialize with the overrides of char and PadByte
Scalar_deserialize(s, raw_data) ==
    LET u == unpack(s.cls, raw_data) IN
    IF ~u.ok THEN u
    ELSE IF s.cls = "char"
         THEN IF u.v < 128 THEN Ok(u.v) ELSE Raise("ValueError")
    ELSE IF ~Scalar_validate(s, u.v).ok THEN Raise("ValueError")
    ELSE IF s.cls = "PadByte" THEN (IF u.v = 0 THEN Ok(0) ELSE Ok(EmptyBytes))
    ELSE Ok(u.v)

\* Serializer._heracles_compare_ for a scalar: both sides are validated,
\* then compared with ==.
Scalar_compare(s, other, value) ==
    IF ~Scalar_validate(s, value).ok \/ ~Scalar_validate(s, other).ok
    THEN Raise("ValueError")
    ELSE Ok(value = other)

(***************************************************************************)
(* array.py.  An array codec instance is [kind, start, stop, serializer,   *)
(* value]: array_size = slice(start, stop), serializer is the element      *)
(* codec instance and value the instance's own (default) value.  Element   *)
(* codecs are scalars; a str value is the sequence of its code points.     *)
(***************************************************************************)
Array(start, stop, serializer, value) ==
    [kind |-> "Array", start |-> start, stop |-> stop,
     serializer |-> serializer, value |-> value]

\* ArrayMeta.__getitem__: the checks on Array[start:stop, serializer]
ArrayMeta_getitem(start, stop, serializer) ==
    IF start < 0 THEN Raise("ValueError")
    ELSE IF stop < start THEN Raise("ValueError")
    ELSE IF Scalar_ishidden(serializer.cls) /\ start # stop THEN Raise("ValueError")
    ELSE Ok(Array(start, stop, serializer, <<>>))

\* ArrayMeta.__ishidden__
Array_ishidden(a) == Scalar_ishidden(a.serializer.cls)

\* ArrayMeta.__isvst__
Array_isvst(a) == a.start # a.stop

\* Array._heracles_validate_
Array_validate(a, value) ==
    IF Len(value) > a.stop THEN Raise("ValueError")
    ELSE IF \E i \in 1..Len(value) : ~Scalar_validate(a.serializer, value[i]).ok
         THEN Raise("ValueError")
    ELSE Ok(value)

\* Array.__init__: Serializer.__init__ validates the initial value.
Array_init(a, value) ==
    IF ~Array_validate(a, value).ok THEN Raise("ValueError")
    ELSE Ok([a EXCEPT !.value = value])

\* Array.__bytesize__(value): the value is validated first.
Array_bytesize(a, value) ==
    IF ~Array_validate(a, value).ok THEN Raise("ValueError")
    ELSE Ok(Max(a.start, Len(value)) * Scalar_bytesize(a.serializer.cls))

\* Array.serialize_value without the padding up to min_count elements
Array_serialize_value_unpadded(a, value) ==
    IF ~Array_validate(a, value).ok THEN Raise("ValueError")
    ELSE
      LET pieces == [i \in 1..Len(value) |->
                        Scalar_serialize_value(a.serializer, value[i])]
      IN IF \E i \in 1..Len(value) : ~pieces[i].ok
         THEN Raise("AttributeError")
         ELSE Ok(Flatten([i \in 1..Len(value) |-> pieces[i].v]))

\* Array.serialize_value
Array_serialize_value(a, value) ==
    IF ~Array_validate(a, value).ok THEN Raise("ValueError")
    ELSE
      LET pieces == [i \in 1..Len(value) |->
                        Scalar_serialize_value(a.serializer, value[i])]
      IN IF \E i \in 1..Len(value) : ~pieces[i].ok
         THEN Raise("AttributeError")   \* the handler reads e.message
         ELSE
           LET serialized == Flatten([i \in 1..Len(value) |-> pieces[i].v])
               remaining_elements ==
                   (Array_bytesize(a, value).v - Len(serialized))
                       \div Scalar_bytesize(a.serializer.cls)
               pad == Scalar_serialize(a.serializer)
           IN IF remaining_elements > 0 /\ ~pad.ok THEN Raise("ValueError")
              ELSE Ok(serialized \o
                      Flatten([i \in 1..remaining_elements |-> pad.v]))

\* str.rstrip('\x00') on a sequence of code points
RECURSIVE rstrip(_)
rstrip(text) ==
    IF text # <<>> /\ text[Len(text)] = 0
    THEN rstrip(SubSeq(text, 1, Len(text) - 1))
    ELSE text

\* Array._to_array_repr: check_value is a str exactly for a char array here.
Array_to_array_repr(a, values) ==
    IF a.serializer.cls = "char" THEN rstrip(values) ELSE values

\* Array.deserialize without the check against max_count
Array_deserialize_unbounded(a, raw_data) ==
    LET esize == Scalar_bytesize(a.serializer.cls)
        min_size == a.start * esize
    IN IF min_size > Len(raw_data) THEN Raise("ValueError")
       ELSE IF Len(raw_data) % esize # 0 THEN Raise("ValueError")
       ELSE
         LET chunks == iter_chunks(raw_data, esize)
             values == [i \in 1..Len(chunks) |->
                           Scalar_deserialize(a.serializer, chunks[i])]
         IN IF \E i \in 1..Len(chunks) : ~values[i].ok
            THEN Raise("ValueError")
            ELSE Ok(Array_to_array_repr(a, [i \in 1..Len(chunks) |-> values[i].v]))

\* Array.deserialize
Array_deserialize(a, raw_data) ==
    LET esize == Scalar_bytesize(a.serializer.cls)
        min_size == a.start * esize
        max_size == a.stop * esize
    IN IF min_size > Len(raw_data) THEN Raise("ValueError")
       ELSE IF Len(raw_data) > max_size THEN Raise("ValueError")
       ELSE IF Len(raw_data) % esize # 0 THEN Raise("ValueError")
       ELSE
         LET chunks == iter_chunks(raw_data, esize)
             values == [i \in 1..Len(chunks) |->
                           Scalar_deserialize(a.serializer, chunks[i])]
         IN IF \E i \in 1..Len(chunks) : ~values[i].ok
            THEN Raise("ValueError")
            ELSE Ok(Array_to_array_repr(a, [i \in 1..Len(chunks) |-> values[i].v]))

\* itertools.zip_longest(value, other, fillvalue) compared pairwise with ==
zip_longest_eq(value, other, fillvalue) ==
    \A i \in 1..Max(Len(value), Len(other)) :
        (IF i <= Len(value) THEN value[i] ELSE fillvalue)
            = (IF i <= Len(other) THEN other[i] ELSE fillvalue)

\* Array._heracles_compare_ over the common prefix only
Array_compare_zip(a, other, value) ==
    IF Max(Len(other), Len(value)) > a.stop THEN Ok(FALSE)
    ELSE Ok(\A i \in 1..Len(value) : i <= Len(other) => value[i] = other[i])

\* Array._heracles_compare_
Array_compare(a, other, value) ==
    IF Max(Len(other), Len(value)) > a.stop THEN Ok(FALSE)
    ELSE Ok(zip_longest_eq(value, other, a.serializer.value))

\* Array.__len__
Array_len(a) == Max(a.start, Len(a.value))

\* Array.__getitem__ failing past the assigned value
Array_getitem_assigned_only(a, idx) ==
    LET i == IF idx < 0 THEN Array_len(a) - idx ELSE idx IN
    IF i < 0 \/ i >= Len(a.value) THEN Raise("IndexError")
    ELSE Ok(a.value[i + 1])

\* Array.__getitem__(idx)
Array_getitem(a, idx) ==
    LET i == IF idx < 0 THEN Array_len(a) - idx ELSE idx IN
    IF i < 0 \/ i >= a.stop THEN Raise("IndexError")
    ELSE IF i < Len(a.value) THEN Ok(a.value[i + 1])
    ELSE Ok(a.serializer.value)

(***************************************************************************)
(* Dispatch on the kind of a member's serializer (Scalar or Array).        *)
(***************************************************************************)
\* SerializerMeta.__isvst__ / ArrayMeta.__isvst__
Ser_isvst(s) == IF s.kind = "Array" THEN Array_isvst(s) ELSE FALSE

\* SerializerMeta.__ishidden__ and its overrides
Ser_ishidden(s) ==
    IF s.kind = "Array" THEN Array_ishidden(s) ELSE Scalar_ishidden(s.cls)

\* serializer.__bytesize__(value) on an instance
Ser_bytesize_value(s, value) ==
    IF s.kind = "Array" THEN Array_bytesize(s, value)
    ELSE Ok(Scalar_bytesize(s.cls))

\* serializer.__bytesize__() on an instance: an array measures its own value
Ser_bytesize(s) == Ser_bytesize_value(s, s.value).v

Ser_validate(s, value) ==
    IF s.kind = "Array" THEN Array_validate(s, value)
    ELSE Scalar_validate(s, value)

Ser_serialize_value(s, value) ==
    IF s.kind = "Array" THEN Array_serialize_value(s, value)
    ELSE Scalar_serialize_value(s, value)

\* Serializer.serialize
Ser_serialize(s) == Ser_serialize_value(s, s.value)

Ser_deserialize(s, raw_data) ==
    IF s.kind = "Array" THEN Array_deserialize(s, raw_data)
    ELSE Scalar_deserialize(s, raw_data)

Ser_compare(s, other, value) ==
    IF s.kind = "Array" THEN Array_compare(s, other, value)
    ELSE Scalar_compare(s, other, value)

(***************************************************************************)
(* struct.py: schema assembly.  A member key is a user-visible name or a   *)
(* HiddenSentinal object; sentinels are numbered in creation order.  A     *)
(* member is [key, serializer] (StructMember); a struct type is            *)
(* [name, members, byte_size] with members in mapping order.               *)
(***************************************************************************)
Name(n) == [name |-> n, hid |-> 0]
HiddenSentinal(i) == [name |-> "", hid |-> i]

\* isinstance(k, HiddenSentinal)
IsSentinel(key) == key.hid # 0

StructMember(key, serializer) == [key |-> key, serializer |-> serializer]

\* StructMember.is_vst / is_hidden / byte_size
Member_is_vst(m) == Ser_isvst(m.serializer)
Member_is_hidden(m) == Ser_ishidden(m.serializer)
Member_byte_size(m) == Ser_bytesize(m.serializer)

Keys(members) == {members[i].key : i \in 1..Len(members)}

IndexOf(members, key) == CHOOSE i \in 1..Len(members) : members[i].key = key

\* OrderedDict.__setitem__: a present key keeps its position
SetItem(members, m) ==
    IF m.key \in Keys(members)
    THEN [members EXCEPT ![IndexOf(members, m.key)] = m]
    ELSE Append(members, m)

\* metamembers.update(mapping): MetaDict.__setitem__ per item; the MetaDict's
\* own members attribute stays empty, so no key is ever refused.
RECURSIVE Update(_, _)
Update(members, new) ==
    IF new = <<>> THEN members
    ELSE Update(SetItem(members, Head(new)), Tail(new))

RECURSIVE Sum(_)
Sum(ns) == IF ns = <<>> THEN 0 ELSE Head(ns) + Sum(Tail(ns))

\* StructMetadata.__init__ summing the visible members only
StructMetadata_visible(name, members) ==
    [name |-> name, members |-> members,
     byte_size |-> Sum([i \in 1..Len(members) |->
                           IF Member_is_hidden(members[i]) THEN 0
                           ELSE Member_byte_size(members[i])])]

\* StructMetadata.__init__: size = sum(m.byte_size for m in members.values())
StructMetadata(name, members) ==
    [name |-> name, members |-> members,
     byte_size |-> Sum([i \in 1..Len(members) |-> Member_byte_size(members[i])])]

\* Struct._heracles_vst_ (StructMeta's is_vst)
Struct_is_vst(T) ==
    IF last_(T.members).ok THEN Member_is_vst(last_(T.members).v) ELSE FALSE

\* A class-body value that is no Serializer (a method, a constant).
NotASerializer == [kind |-> "object"]

\* on_member_add without the check of the last member declared
on_member_add_unchecked(members, key, value, sentinel) ==
    IF Name(key) \in Keys(members) THEN Raise("KeyError")
    ELSE IF value.kind \notin {"Scalar", "Array"} THEN Ok(members)
    ELSE IF Ser_ishidden(value)
         THEN Ok(Append(members, StructMember(HiddenSentinal(sentinel), value)))
    ELSE Ok(Append(members, StructMember(Name(key), value)))

\* StructMeta.__prepare__.on_member_add behind MetaDict.__setitem__, for the
\* class-body statement `key = value`; sentinel is the number of the
\* HiddenSentinal a hidden member would be stored under.
on_member_add(members, key, value, sentinel) ==
    IF Name(key) \in Keys(members) THEN Raise("KeyError")
    ELSE IF value.kind \notin {"Scalar", "Array"} THEN Ok(members)
    ELSE IF members # <<>> /\ Member_is_vst(last_(members).v)
         THEN Raise("FieldVstError")
    ELSE IF Ser_ishidden(value)
         THEN Ok(Append(members, StructMember(HiddenSentinal(sentinel), value)))
    ELSE Ok(Append(members, StructMember(Name(key), value)))

\* The loop of StructMeta.__new__ over the struct bases: the merged members
\* and the variable-size base met (last_base), or the error raised.
RECURSIVE BasesLoop(_, _, _)
BasesLoop(bases, last_base, metamembers) ==
    IF bases = <<>>
    THEN Ok([last_base |-> last_base, metamembers |-> metamembers])
    ELSE IF last_base THEN Raise("BaseVstError")
    ELSE BasesLoop(Tail(bases), Struct_is_vst(Head(bases)),
                   Update(metamembers, Head(bases).members))

\* StructMeta.__new__(name, bases, classdict)
StructMeta_new(name, bases, members) ==
    LET b == BasesLoop(bases, FALSE, <<>>) IN
    IF ~b.ok THEN b
    ELSE IF b.v.last_base /\ ~last_(members).ok THEN Raise("StopIteration")
    ELSE IF b.v.last_base /\ Member_is_vst(last_(members).v)
         THEN Raise("BaseVstError")
    ELSE Ok(StructMetadata(name, Update(b.v.metamembers, members)))

(***************************************************************************)
(* struct.py: instances.  An instance is [type, fields]: fields maps each  *)
(* visible member name to the stored value.  Struct.__init__ reads every   *)
(* visible field when it validates, and the first read replaces a stored   *)
(* serializer by its value (Struct.__getattribute__), so the fields of a   *)
(* constructed instance hold bare values.  A mapping is a function from    *)
(* names to values.                                                        *)
(***************************************************************************)
Visible(T) ==
    SelectSeq(T.members, LAMBDA m : ~Member_is_hidden(m))

\* StructMeta.__iter__ yielding every key
StructMeta_iter_all(T) ==
    [i \in 1..Len(T.members) |-> T.members[i].key.name]

\* StructMeta.__iter__: the keys that are no HiddenSentinal, in order
StructMeta_iter(T) ==
    LET ms == SelectSeq(T.members, LAMBDA m : ~IsSentinel(m.key))
    IN [i \in 1..Len(ms) |-> ms[i].key.name]

VisibleNames(T) == {Visible(T)[i].key.name : i \in 1..Len(Visible(T))}

\* Struct._heracles_validate_
Struct_validate(T, fields) ==
    IF \E i \in 1..Len(Visible(T)) :
          ~Ser_validate(Visible(T)[i].serializer,
                        fields[Visible(T)[i].key.name]).ok
    THEN Raise("ValueError")
    ELSE Ok(fields)

\* The caller's dict after Struct.__init__(value): the loop over the
\* visible members has popped each of their names from it.
Struct_init_value_after(T, value) ==
    [n \in DOMAIN value \ VisibleNames(T) |-> value[n]]

\* Struct.__init__(value) ignoring the keys left in the mapping
Struct_init_lenient(T, value) ==
    LET fields == [n \in VisibleNames(T) |->
                      IF n \in DOMAIN value THEN value[n]
                      ELSE T.members[IndexOf(T.members, Name(n))].serializer.value]
    IN IF ~Struct_validate(T, fields).ok THEN Raise("ValueError")
       ELSE Ok(fields)

\* Struct.__init__(value) for a dict value
Struct_init(T, value) ==
    LET fields == [n \in VisibleNames(T) |->
                      IF n \in DOMAIN value THEN value[n]
                      ELSE T.members[IndexOf(T.members, Name(n))].serializer.value]
    IN IF DOMAIN value \ VisibleNames(T) # {} THEN Raise("UnknownFieldsError")
       ELSE IF ~Struct_validate(T, fields).ok THEN Raise("ValueError")
       ELSE Ok(fields)

\* The loop of Struct.serialize_value over the members
RECURSIVE SerializeWalk(_, _, _)
SerializeWalk(members, fields, result) ==
    IF members = <<>> THEN Ok(result)
    ELSE LET member == Head(members)
             data_piece ==
                 IF Member_is_hidden(member) THEN Ser_serialize(member.serializer)
                 ELSE Ser_serialize_value(member.serializer,
                                          fields[member.key.name])
         IN IF ~data_piece.ok
            THEN (IF data_piece.err = "ValueError"
                  THEN Raise("AttributeError")   \* the handler reads e.message
                  ELSE data_piece)
            ELSE SerializeWalk(Tail(members), fields, result \o data_piece.v)

\* Struct.serialize_value leaving out the hidden members
Struct_serialize_value_visible(T, fields) == SerializeWalk(Visible(T), fields, <<>>)

\* Struct.serialize_value(value) for a value of the same struct type
Struct_serialize_value(T, fields) == SerializeWalk(T.members, fields, <<>>)

\* The loop of Struct.deserialize: the decoded visible fields and the piece
\* of raw_data each member was given.
RECURSIVE DeserializeWalk(_, _, _, _)
DeserializeWalk(members, raw_data, decoded, pieces) ==
    IF members = <<>> THEN Ok([members |-> decoded, pieces |-> pieces])
    ELSE LET member == Head(members)
             size == Member_byte_size(member)
             data_piece ==
                 IF Member_is_vst(member) THEN raw_data
                 ELSE SubSeq(raw_data, 1,
                             IF size <= Len(raw_data) THEN size ELSE Len(raw_data))
             value == Ser_deserialize(member.serializer, data_piece)
         IN IF ~value.ok THEN value
            ELSE DeserializeWalk(
                    Tail(members),
                    SubSeq(raw_data, Len(data_piece) + 1, Len(raw_data)),
                    IF Member_is_hidden(member) THEN decoded
                    ELSE (member.key.name :> value.v) @@ decoded,
                    Append(pieces, data_piece))

\* Struct.deserialize refusing raw data longer than the struct
Struct_deserialize_exact(T, raw_data) ==
    IF Len(raw_data) < T.byte_size THEN Raise("ValueError")
    ELSE IF ~Struct_is_vst(T) /\ Len(raw_data) > T.byte_size
         THEN Raise("ValueError")
    ELSE LET w == DeserializeWalk(T.members, raw_data, <<>>, <<>>) IN
         IF ~w.ok THEN w ELSE Struct_init(T, w.v.members)

\* Struct.deserialize: the fields of the instance returned
Struct_deserialize(T, raw_data) ==
    IF Len(raw_data) < T.byte_size THEN Raise("ValueError")
    ELSE LET w == DeserializeWalk(T.members, raw_data, <<>>, <<>>) IN
         IF ~w.ok THEN w ELSE Struct_init(T, w.v.members)

\* Struct._heracles_compare_(other, value), all three of the same type
Struct_compare(T, other, fields) ==
    LET cmp == [i \in 1..Len(Visible(T)) |->
                   Ser_compare(Visible(T)[i].serializer,
                               other[Visible(T)[i].key.name],
                               fields[Visible(T)[i].key.name])]
    IN IF \E i \in 1..Len(cmp) :
             ~cmp[i].ok /\ \A j \in 1..(i - 1) : cmp[j].ok /\ cmp[j].v
       THEN Raise("ValueError")
       ELSE Ok(\A i \in 1..Len(cmp) : cmp[i].ok /\ cmp[i].v)

\* A value handed to a struct operation: an instance of a struct type, or
\* an object that is no struct (an int).
StructValue(T, fields) == [py |-> "Struct", type |-> T, fields |-> fields]
NoStruct == [py |-> "int"]
IsInstanceOf(value, T) == value.py = "Struct" /\ value.type = T

\* Struct.serialize_value(value) with its check of type(value)
Struct_serialize_value_any(T, value) ==
    IF ~IsInstanceOf(value, T) THEN Raise("TypeError")
    ELSE Struct_serialize_value(T, value.fields)

\* Struct._heracles_validate_(value) with its check of type(value)
Struct_validate_any(T, value) ==
    IF ~IsInstanceOf(value, T) THEN Raise("ValueError")
    ELSE Struct_validate(T, value.fields)

\* getattr(other, name) for each visible member of T, in order: the first
\* name that other has no attribute for, 0 if it has them all
MissingAttr(T, other) ==
    LET missing == {i \in 1..Len(Visible(T)) :
                       \/ other.py # "Struct"
                       \/ Visible(T)[i].key.name \notin VisibleNames(other.type)}
    IN IF missing = {} THEN 0
       ELSE CHOOSE i \in missing : \A j \in missing : i <= j

\* Struct._heracles_compare_(other, value) with its check of the types:
\* `type(other) != type(self) != type(value)` is a chained comparison.
Struct_compare_any(T, other, value) ==
    IF ~IsInstanceOf(other, T) /\ ~IsInstanceOf(value, T) THEN Raise("TypeError")
    ELSE LET k == MissingAttr(T, other)
             n == IF k = 0 THEN Len(Visible(T)) ELSE k - 1
             cmp == [i \in 1..n |->
                        Ser_compare(Visible(T)[i].serializer,
                                    other.fields[Visible(T)[i].key.name],
                                    value.fields[Visible(T)[i].key.name])]
         IN IF \E i \in 1..n :
                  ~cmp[i].ok /\ \A j \in 1..(i - 1) : cmp[j].ok /\ cmp[j].v
            THEN Raise("ValueError")
            ELSE IF \E i \in 1..n : cmp[i].ok /\ ~cmp[i].v THEN Ok(FALSE)
            ELSE IF k # 0 THEN Raise("AttributeError")
            ELSE Ok(TRUE)

\* Struct._heracles_bytesize_(value) without the variable member's difference
Struct_bytesize_fixed(T, fields) == Ok(T.byte_size)

\* Struct._heracles_bytesize_(value)
Struct_bytesize(T, fields) ==
    IF Struct_is_vst(T)
    THEN LET member == last_(T.members).v
             actual == Ser_bytesize_value(member.serializer,
                                          fields[member.key.name])
         IN IF ~actual.ok THEN actual
            ELSE Ok(T.byte_size + (actual.v - Member_byte_size(member)))
    ELSE Ok(T.byte_size)

(***************************************************************************)
(* Inputs of the array operations.                                         *)
(***************************************************************************)
SeqsUpTo(S, n) == UNION {[1..k -> S] : k \in 0..n}

\* Element codec instances an array is declared over: u8, u8(1), u16_be,
\* char and PadByte, each with its default value.
ElementCodecs ==
    {Scalar("u8", 0), Scalar("u8", 1), Scalar("u16_be", 0),
     Scalar("char", 0), Scalar("PadByte", 0)}

\* Element values offered to an array: two the codec accepts, one it rejects.
ElemInputs(cls) == CASE cls = "u8" -> {0, 1, 256}
                     [] cls = "u16_be" -> {0, 256, 65536}
                     [] cls = "char" -> {0, 1, 200}
                     [] cls = "PadByte" -> {0, 1}

ArrayValues(a) == SeqsUpTo(ElemInputs(a.serializer.cls), MaxCount + 1)

RawBytes == {0, 1, 200}

RawData(a) ==
    SeqsUpTo(RawBytes, (a.stop + 1) * Scalar_bytesize(a.serializer.cls))

ArrayTypes ==
    {ArrayMeta_getitem(start, stop, e).v :
        <<start, stop, e>> \in
            {t \in (0..MaxCount) \X (0..MaxCount) \X ElementCodecs :
                ArrayMeta_getitem(t[1], t[2], t[3]).ok}}

NoClassdict == [active |-> FALSE, bases |-> <<>>, members |-> <<>>]

(***************************************************************************)
(* SpecArr: the operations of one array codec.  The array type and the     *)
(* operand are drawn by InitArr; each action applies one operation of      *)
(* array.py to the operand.                                                *)
(***************************************************************************)
ArrayInputs(a) ==
    {[op |-> "input", type |-> "tuple", arg |-> x] : x \in ArrayValues(a)}
    \cup {[op |-> "input", type |-> "bytes", arg |-> x] : x \in RawData(a)}

InitArr ==
    /\ structs = <<>>
    /\ classdict = NoClassdict
    /\ self \in ArrayTypes
    /\ last \in ArrayInputs(self)

\* a = Array[...](value)
ArrayInit ==
    /\ last.op = "input" /\ last.type = "tuple"
    /\ LET r == Array_init(self, last.arg) IN
        /\ self' = IF r.ok THEN r.v ELSE self
        /\ last' = [op |-> "init", value |-> last.arg, res |-> r]
    /\ UNCHANGED <<structs, classdict>>

\* a.serialize_value(value)
ArraySerializeValue ==
    /\ last.op = "input" /\ last.type = "tuple"
    /\ last' = [op |-> "serialize_value", value |-> last.arg,
                res |-> Array_serialize_value(self, last.arg)]
    /\ UNCHANGED <<structs, classdict, self>>

\* a.deserialize(raw_data)
ArrayDeserialize ==
    /\ last.op = "input" /\ last.type = "bytes"
    /\ last' = [op |-> "deserialize", raw_data |-> last.arg,
                res |-> Array_deserialize(self, last.arg)]
    /\ UNCHANGED <<structs, classdict, self>>

\* Operands offered to compare: the element default and 1, up to one
\* element longer than max_count.
CompareOperands(a) == SeqsUpTo({a.serializer.value, 1}, MaxCount + 1)

\* a[idx] on the instance just constructed
ArrayIndex ==
    /\ last.op = "init" /\ last.res.ok
    /\ \E idx \in (-1)..(MaxCount + 1) :
         last' = [op |-> "getitem", idx |-> idx, res |-> Array_getitem(self, idx)]
    /\ UNCHANGED <<structs, classdict, self>>

\* a._heracles_compare_(other, value), value being the tuple offered to
\* the constructor
ArrayCompare ==
    /\ last.op = "init"
    /\ \E other \in CompareOperands(self) :
         last' = [op |-> "compare", other |-> other, value |-> last.value,
                  res |-> Array_compare(self, other, last.value),
                  swapped |-> Array_compare(self, last.value, other)]
    /\ UNCHANGED <<structs, classdict, self>>

NextArr ==
    ArrayInit \/ ArraySerializeValue \/ ArrayDeserialize \/ ArrayIndex
        \/ ArrayCompare

SpecArr == InitArr /\ [][NextArr]_vars

(***************************************************************************)
(* C8.  Array encode of a value with len(value) <= max_count whose         *)
(* elements the element codec accepts yields the element encodings of the  *)
(* supplied elements in order, followed by exactly                         *)
(* max(0, min_count - len(value)) encodings of the element codec's default *)
(* value; the encoded length is max(min_count, len(value)) * element_size. *)
(***************************************************************************)
Encodable(a, value) ==
    /\ Len(value) <= a.stop
    /\ \A i \in 1..Len(value) : Scalar_validate(a.serializer, value[i]).ok

BadLength(a, raw_data) ==
    LET esize == Scalar_bytesize(a.serializer.cls) IN
    \/ Len(raw_data) < a.start * esize
    \/ Len(raw_data) > a.stop * esize
    \/ Len(raw_data) % esize # 0

ChunkDecodes(a, raw_data) ==
    LET chunks == iter_chunks(raw_data, Scalar_bytesize(a.serializer.cls)) IN
    [i \in 1..Len(chunks) |-> Scalar_deserialize(a.serializer, chunks[i])]

TypeNames == <<"S", "T", "U">>

MemberNames == {"a", "b"}

\* u8, Array[MaxCount, PadByte], Array[1:MaxCount, u8] declared as a type and
\* Array[0:MaxCount, u8]((1,)) declared as an instance with a default value.
U8 == Scalar("u8", 0)
PaddingArray == Array(MaxCount, MaxCount, Scalar("PadByte", 0), <<>>)
VariableArray == Array(1, MaxCount, U8, <<>>)
VariableArrayWithDefault == Array(0, MaxCount, U8, <<1>>)

Catalog == {U8, PaddingArray, VariableArray, VariableArrayWithDefault}

\* The bases of a class statement: any sequence of distinct created structs.
BaseLists(n) ==
    {<<>>} \cup {<<i>> : i \in 1..n}
           \cup {<<i, j>> : <<i, j>> \in {p \in (1..n) \X (1..n) : p[1] # p[2]}}

AllKeys ==
    UNION {Keys(structs[i].members) : i \in 1..Len(structs)}
        \cup Keys(classdict.members)

\* The number of the next HiddenSentinal object created.
NextSentinel ==
    1 + (CHOOSE n \in {0} \cup {k.hid : k \in AllKeys} :
            \A k \in AllKeys : k.hid <= n)

InitDef ==
    /\ structs = <<>>
    /\ classdict = NoClassdict
    /\ self = <<>>
    /\ last = [op |-> "start"]

\* `class Name(bases...):` -- StructMeta.__prepare__
Prepare ==
    /\ ~classdict.active
    /\ Len(structs) < Len(TypeNames) - 1
    /\ \E bases \in BaseLists(Len(structs)) :
        /\ classdict' = [active |-> TRUE, bases |-> bases, members |-> <<>>]
        /\ last' = [op |-> "prepare", bases |-> bases]
    /\ UNCHANGED <<structs, self>>

\* `key = value` in the class body -- MetaDict.__setitem__ / on_member_add
MemberAdd ==
    /\ classdict.active
    /\ Len(classdict.members) < MaxOwn
    /\ \E key \in MemberNames, value \in Catalog \cup {NotASerializer} :
        LET r == on_member_add(classdict.members, key, value, NextSentinel) IN
        /\ classdict' = IF r.ok THEN [classdict EXCEPT !.members = r.v]
                        ELSE NoClassdict
        /\ last' = [op |-> "member_add", key |-> key, value |-> value,
                    before |-> classdict.members, res |-> r]
    /\ UNCHANGED <<structs, self>>

\* End of the class body -- StructMeta.__new__
New ==
    /\ classdict.active
    /\ LET bases == [i \in 1..Len(classdict.bases) |-> structs[classdict.bases[i]]]
           r == StructMeta_new(TypeNames[Len(structs) + 1], bases, classdict.members)
       IN /\ structs' = IF r.ok THEN Append(structs, r.v) ELSE structs
          /\ last' = [op |-> "new", bases |-> bases,
                      members |-> classdict.members, res |-> r]
    /\ classdict' = NoClassdict
    /\ UNCHANGED self

NextDef == Prepare \/ MemberAdd \/ New

SpecDef == InitDef /\ [][NextDef]_vars

(***************************************************************************)
(* C2.  Declaring an own member after an own variable-size member fails at *)
(* schema-definition time: the statement raises, the class statement is    *)
(* abandoned, and no struct type is ever created from a class body whose   *)
(* variable-size member is not the last declared one.                      *)
(***************************************************************************)
IsSerializer(value) == value.kind \in {"Scalar", "Array"}

VstOnlyLast(members) ==
    \A i \in 1..Len(members) : Member_is_vst(members[i]) => i = Len(members)

C2_OwnMemberAfterVstRejected ==
    /\ VstOnlyLast(classdict.members)
    /\ (last.op = "member_add" /\ IsSerializer(last.value)
          /\ last.before # <<>> /\ Member_is_vst(last.before[Len(last.before)]))
        => (~last.res.ok /\ ~classdict.active)
    /\ (last.op = "new" /\ last.res.ok) => VstOnlyLast(last.members)

\* A member was declared right after a variable-size own member.
C2_Witness ==
    /\ last.op = "member_add" /\ IsSerializer(last.value)
    /\ last.before # <<>> /\ Member_is_vst(last.before[Len(last.before)])
    /\ last.res.err = "FieldVstError"

(***************************************************************************)
(* C3.  Declaring a struct that inherits from a variable-size base struct  *)
(* and declares at least one own member fails at schema-definition time.   *)
(***************************************************************************)
HasVstBase(bases) == \E i \in 1..Len(bases) : Struct_is_vst(bases[i])

C3_MemberAfterVstBaseRejected ==
    (last.op = "new" /\ HasVstBase(last.bases) /\ last.members # <<>>)
        => ~last.res.ok

(***************************************************************************)
(* Operations on struct instances.  A run declares struct S, or S and a    *)
(* struct T(S), through the class-statement operators above, and draws one *)
(* operand: a mapping to construct from, or raw bytes to decode.  self is  *)
(* the instance the operations are applied to, [type, fields]; it starts as *)
(* the default instance T() and Construct replaces it.                     *)
(***************************************************************************)
\* The member names of the class bodies of S and of T, by position.
SKeys == <<"a", "b", "c", "d">>
TKeys == <<"x">>
UnknownKey == "zzz"

\* The statements of a class body, run through on_member_add in order.
RECURSIVE ClassBody(_, _, _, _)
ClassBody(members, decls, keys, sentinel) ==
    IF decls = <<>> THEN Ok(members)
    ELSE LET r == on_member_add(members, Head(keys), Head(decls), sentinel)
         IN IF ~r.ok THEN r
            ELSE ClassBody(r.v, Tail(decls), Tail(keys), sentinel + 1)

\* `class name(bases): decls`
Class(name, bases, decls, keys, sentinel) ==
    LET b == ClassBody(<<>>, decls, keys, sentinel) IN
    IF ~b.ok THEN b ELSE StructMeta_new(name, bases, b.v)

\* The struct types S with at most MaxOwn members that the library creates.
STypes ==
    LET rs == {Class("S", <<>>, decls, SKeys, 1) :
                  decls \in SeqsUpTo(Catalog, MaxOwn)}
    IN {r.v : r \in {x \in rs : x.ok}}

\* The struct types T(S) with one own member that the library creates.
TTypes(S) ==
    LET rs == {Class("T", <<S>>, <<c>>, TKeys, MaxOwn + 1) : c \in Catalog}
    IN {r.v : r \in {x \in rs : x.ok}}

\* Values offered for a field: elements in and out of the element range,
\* arrays up to one element longer than max_count.
FieldValues(s) ==
    IF s.kind = "Array"
    THEN {[i \in 1..n |-> 1] : n \in 0..(s.stop + 1)} \cup {<<0>>, <<256>>}
    ELSE ElemInputs(s.cls)

\* The mappings offered to the constructor: any subset of keys, with the
\* values offered for the member of that name (0 for a key that is none).
RECURSIVE Mappings(_, _)
Mappings(T, keys) ==
    IF keys = <<>> THEN {<<>>}
    ELSE LET rest == Mappings(T, Tail(keys))
             key == Head(keys)
             vals == IF key \in VisibleNames(T)
                     THEN FieldValues(T.members[IndexOf(T.members, Name(key))].serializer)
                     ELSE {0}
         IN rest \cup {(key :> v) @@ f : v \in vals, f \in rest}

\* The name the class body gave the i-th member of T.
DeclaredKey(T, i) ==
    IF T.name = "T" /\ i = Len(T.members) THEN TKeys[1] ELSE SKeys[i]

\* Keys a caller may supply: every declared member name, visible or hidden,
\* and a name that no member has.
MappingKeys(T) ==
    [i \in 1..Len(T.members) |-> DeclaredKey(T, i)] \o <<UnknownKey>>

ValInputs(T) ==
    {[op |-> "input", type |-> "dict", arg |-> m] : m \in Mappings(T, MappingKeys(T))}
      \cup {[op |-> "input", type |-> "bytes", arg |-> b] :
               b \in SeqsUpTo({0, 1}, MaxRaw)}

InitVal ==
    /\ classdict = NoClassdict
    /\ \E S \in STypes :
         \E T \in {S} \cup TTypes(S) :
            /\ structs = IF T = S THEN <<S>> ELSE <<S, T>>
            /\ self = [type |-> T, fields |-> Struct_init(T, <<>>).v]
            /\ last \in ValInputs(T)

\* T(value) for a mapping value
Construct ==
    /\ last.op = "input" /\ last.type = "dict"
    /\ LET r == Struct_init(self.type, last.arg) IN
        /\ self' = IF r.ok THEN [self EXCEPT !.fields = r.v] ELSE self
        /\ last' = [op |-> "init", value |-> last.arg, res |-> r,
                    after |-> Struct_init_value_after(self.type, last.arg)]
    /\ UNCHANGED <<structs, classdict>>

\* list(self) -- Struct.__iter__ / StructMeta.__iter__
Iterate ==
    /\ last.op = "init" /\ last.res.ok
    /\ last' = [op |-> "iter", res |-> StructMeta_iter(self.type)]
    /\ UNCHANGED <<structs, classdict, self>>

\* self.byte_size()
ByteSize ==
    /\ last.op = "init" /\ last.res.ok
    /\ last' = [op |-> "bytesize", res |-> Struct_bytesize(self.type, self.fields)]
    /\ UNCHANGED <<structs, classdict, self>>

\* self.serialize()
Serialize ==
    /\ last.op = "init" /\ last.res.ok
    /\ last' = [op |-> "serialize",
                res |-> Struct_serialize_value(self.type, self.fields)]
    /\ UNCHANGED <<structs, classdict, self>>

\* T.deserialize(raw_data), of the operand or of the bytes just encoded
Deserialize ==
    /\ \/ last.op = "input" /\ last.type = "bytes"
       \/ last.op = "serialize" /\ last.res.ok
    /\ LET raw_data == IF last.op = "input" THEN last.arg ELSE last.res.v IN
       last' = [op |-> "deserialize", raw_data |-> raw_data,
                encoded |-> (last.op = "serialize"),
                res |-> Struct_deserialize(self.type, raw_data)]
    /\ UNCHANGED <<structs, classdict, self>>

\* self == other, for the instance just decoded from self's encoding or for
\* another instance constructed from a mapping
Compare ==
    /\ \/ /\ last.op = "deserialize" /\ last.encoded /\ last.res.ok
          /\ last' = [op |-> "compare", other |-> last.res.v, roundtrip |-> TRUE,
                      res |-> Struct_compare(self.type, last.res.v, self.fields)]
       \/ /\ last.op = "init" /\ last.res.ok
          /\ \E value \in Mappings(self.type, MappingKeys(self.type)) :
               LET other == Struct_init(self.type, value) IN
               /\ other.ok
               /\ last' = [op |-> "compare", other |-> other.v, roundtrip |-> FALSE,
                           res |-> Struct_compare(self.type, other.v, self.fields)]
    /\ UNCHANGED <<structs, classdict, self>>

\* The instances an operation is called on: self, or the default instance
\* of another struct type created
Receivers ==
    {self} \cup {[type |-> structs[i], fields |-> Struct_init(structs[i], <<>>).v] :
                    i \in {j \in 1..Len(structs) : structs[j] # self.type}}

\* The values of another concrete type offered to an instance
OtherValues(T) ==
    {NoStruct}
      \cup {StructValue(structs[i], Struct_init(structs[i], <<>>).v) :
               i \in {j \in 1..Len(structs) : structs[j] # T}}

\* r.serialize_value(other), r.validate(other) and r == other for a value
\* other of another concrete type
ForeignValue ==
    /\ last.op = "init" /\ last.res.ok
    /\ \E r \in Receivers : \E other \in OtherValues(r.type) :
         \E op \in {"serialize_value", "validate", "compare"} :
           last' = [op |-> "foreign", call |-> op, type |-> r.type, other |-> other,
                    res |-> CASE op = "serialize_value" ->
                                   Struct_serialize_value_any(r.type, other)
                              [] op = "validate" ->
                                   Struct_validate_any(r.type, other)
                              [] op = "compare" ->
                                   Struct_compare_any(r.type, other,
                                       StructValue(r.type, r.fields))]
    /\ UNCHANGED <<structs, classdict, self>>

NextVal ==
    Construct \/ Iterate \/ ByteSize \/ Serialize \/ Deserialize \/ Compare
        \/ ForeignValue

SpecVal == InitVal /\ [][NextVal]_vars

(***************************************************************************)
(* C1.  Round trip for structs: an instance that construction accepted     *)
(* encodes to bytes that decode again, and the decoded instance compares   *)
(* equal to the original.                                                  *)
(***************************************************************************)
C1_RoundTrip ==
    /\ (last.op = "deserialize" /\ last.encoded) => last.res.ok
    /\ (last.op = "compare" /\ last.roundtrip) => (last.res.ok /\ last.res.v)

(***************************************************************************)
(* C4.  Fixed-size invariant: the byte_size of a struct type without a     *)
(* variable-size member is the sum of the byte_size of all its members,    *)
(* inherited and own, hidden and visible, and every instance of the type   *)
(* reports that size whatever its fields hold.                             *)
(***************************************************************************)
HasVstMember(T) == \E i \in 1..Len(T.members) : Member_is_vst(T.members[i])

HasHiddenMember(T) == \E i \in 1..Len(T.members) : Member_is_hidden(T.members[i])

C4_FixedSize ==
    ~HasVstMember(self.type) =>
        /\ self.type.byte_size =
              Sum([i \in 1..Len(self.type.members) |->
                      Member_byte_size(self.type.members[i])])
        /\ last.op = "bytesize" => last.res = Ok(self.type.byte_size)

\* The size was asked of an instance with a non-default field, of a derived
\* fixed-size type that has hidden and visible members.
C4_Witness ==
    /\ last.op = "bytesize" /\ last.res.ok
    /\ ~HasVstMember(self.type) /\ HasHiddenMember(self.type)
    /\ self.type.name = "T"
    /\ \E n \in VisibleNames(self.type) : self.fields[n] = 1

(***************************************************************************)
(* C5.  Variable-tail invariant: for a struct whose last member is         *)
(* variable-size, the byte size of a valid instance is the fixed part,     *)
(* which counts the last member at min_count elements, plus the size of    *)
(* the last field's value minus the last member's min_count size.          *)
(***************************************************************************)
C5_VariableTail ==
    (last.op = "bytesize" /\ Struct_is_vst(self.type)) =>
        LET members == self.type.members
            member == members[Len(members)]
            esize == Scalar_bytesize(member.serializer.serializer.cls)
            minimum == member.serializer.start * esize
            N == Len(self.fields[member.key.name])
            fixed_part == Sum([i \in 1..(Len(members) - 1) |->
                                  Member_byte_size(members[i])]) + minimum
        IN last.res = Ok(fixed_part + Max(minimum, N * esize) - minimum)

\* The size was asked of an instance whose variable tail holds more than
\* min_count elements.
C5_Witness ==
    /\ last.op = "bytesize" /\ Struct_is_vst(self.type)
    /\ LET member == self.type.members[Len(self.type.members)] IN
         /\ Len(self.fields[member.key.name]) > member.serializer.start
         /\ member.serializer.start > 0
    /\ Len(self.type.members) > 1

(***************************************************************************)
(* C6.  Hidden exclusion: iterating over the field names of a struct       *)
(* yields exactly the names of its non-hidden members, in member order,    *)
(* and two instances whose visible fields are pairwise equal compare       *)
(* equal.                                                                  *)
(***************************************************************************)
C6_HiddenExclusion ==
    /\ last.op = "iter" =>
          last.res = [i \in 1..Len(Visible(self.type)) |->
                         Visible(self.type)[i].key.name]
    /\ (last.op = "compare"
          /\ \A n \in VisibleNames(self.type) : last.other[n] = self.fields[n])
        => last.res = Ok(TRUE)

\* The names were listed of a struct with a hidden member between visible
\* members.
C6_Witness ==
    /\ last.op = "iter" /\ last.res # <<>>
    /\ \E i, j, k \in 1..Len(self.type.members) :
          /\ i < j /\ j < k
          /\ ~Member_is_hidden(self.type.members[i])
          /\ Member_is_hidden(self.type.members[j])
          /\ ~Member_is_hidden(self.type.members[k])

(***************************************************************************)
(* C7.  Construction from a mapping.  As claimed: it raises                *)
(* UnknownFieldsError when the mapping has a key that is not the name of a *)
(* visible member, and otherwise succeeds with every omitted visible       *)
(* member reading back as its codec's default.                             *)
(***************************************************************************)
UnknownFields(T, value) == DOMAIN value \ VisibleNames(T)

DefaultOf(T, n) == T.members[IndexOf(T.members, Name(n))].serializer.value

Accepted(T, value) ==
    \A n \in DOMAIN value \cap VisibleNames(T) :
        Ser_validate(T.members[IndexOf(T.members, Name(n))].serializer,
                     value[n]).ok

C7_Original ==
    last.op = "init" =>
        /\ UnknownFields(self.type, last.value) # {}
              => last.res = Raise("UnknownFieldsError")
        /\ UnknownFields(self.type, last.value) = {}
              => /\ last.res.ok
                 /\ \A n \in VisibleNames(self.type) \ DOMAIN last.value :
                       self.fields[n] = DefaultOf(self.type, n)

(***************************************************************************)
(* C7, amended.  Construction from a mapping raises UnknownFieldsError     *)
(* when the mapping has a key that is not the name of a visible member;    *)
(* when every key names a visible member and every supplied value is       *)
(* accepted by its member's validate, construction succeeds, each supplied *)
(* field reads back as supplied and each omitted visible member as its     *)
(* codec's default; when every key names a visible member and a supplied   *)
(* value is not accepted, construction raises ValueError.                  *)
(***************************************************************************)
C7_Construction ==
    last.op = "init" =>
        /\ UnknownFields(self.type, last.value) # {}
              => last.res = Raise("UnknownFieldsError")
        /\ (UnknownFields(self.type, last.value) = {}
              /\ Accepted(self.type, last.value))
              => /\ last.res.ok
                 /\ last.res.v = self.fields
                 /\ \A n \in DOMAIN last.value : self.fields[n] = last.value[n]
                 /\ \A n \in VisibleNames(self.type) \ DOMAIN last.value :
                       self.fields[n] = DefaultOf(self.type, n)
        /\ (UnknownFields(self.type, last.value) = {}
              /\ ~Accepted(self.type, last.value))
              => last.res = Raise("ValueError")

\* The mapping named a hidden member, next to a visible one it supplied.
C7_Witness ==
    /\ last.op = "init"
    /\ last.res.err = "UnknownFieldsError"
    /\ UnknownKey \notin DOMAIN last.value
    /\ DOMAIN last.value \cap VisibleNames(self.type) # {}

(***************************************************************************)
(* C10.  Struct decode fails when the input is shorter than byte_size();   *)
(* otherwise every member that is fixed-size or not the final member is    *)
(* decoded from exactly its byte_size bytes at the front of the remaining  *)
(* input, a final variable-size member from all remaining bytes, and the   *)
(* result is the instance constructed from the decoded non-hidden values.  *)
(***************************************************************************)
RECURSIVE ExpectedWalk(_, _, _)
ExpectedWalk(members, raw_data, decoded) ==
    IF members = <<>> THEN Ok(decoded)
    ELSE LET member == Head(members)
             size == IF Tail(members) = <<>> /\ Member_is_vst(member)
                     THEN Len(raw_data) ELSE Member_byte_size(member)
             value == Ser_deserialize(member.serializer, SubSeq(raw_data, 1, size))
         IN IF ~value.ok THEN value
            ELSE ExpectedWalk(Tail(members),
                              SubSeq(raw_data, size + 1, Len(raw_data)),
                              IF Member_is_hidden(member) THEN decoded
                              ELSE (member.key.name :> value.v) @@ decoded)

C10_StructDecodeWalk ==
    last.op = "deserialize" =>
        IF Len(last.raw_data) < self.type.byte_size THEN ~last.res.ok
        ELSE LET w == ExpectedWalk(self.type.members, last.raw_data, <<>>)
                 expected == IF w.ok THEN Struct_init(self.type, w.v) ELSE w
             IN /\ last.res.ok = expected.ok
                /\ last.res.ok => last.res.v = expected.v

(***************************************************************************)
(* C11.  Struct encode of an instance is the concatenation, in member      *)
(* order (the base's members first, own members last), of each member      *)
(* codec's encoding of the corresponding field, with nothing in between;   *)
(* a hidden member contributes the encoding of its own default value.      *)
(***************************************************************************)
ExpectedPiece(member, fields) ==
    LET s == member.serializer
        value == IF Member_is_hidden(member) THEN s.value
                 ELSE fields[member.key.name]
    IN IF s.kind = "Array"
       THEN Flatten([i \in 1..Len(value) |-> pack(s.serializer.cls, value[i])])
            \o Flatten([i \in 1..Max(0, s.start - Len(value)) |->
                           pack(s.serializer.cls, s.serializer.value)])
       ELSE pack(s.cls, value)

IntLiteral(v) == [kind |-> "int", v |-> v]
auto == [kind |-> "auto", v |-> 0]

LiteralKeys(members) == {members[i].key : i \in 1..Len(members)}
LiteralValues(members) == {members[i].v : i \in 1..Len(members)}

\* EnumMeta.__prepare__.on_literal_add behind MetaDict.__setitem__
on_literal_add(members, key, value) ==
    IF key \in LiteralKeys(members) THEN Raise("KeyError")
    ELSE IF value.kind \notin {"int", "auto"} THEN Ok(members)
    ELSE IF value.kind = "auto"
         THEN Ok(Append(members,
                        [key |-> key,
                         v |-> IF last_(members).ok THEN last_(members).v.v + 1
                               ELSE 0]))
    ELSE Ok(Append(members, [key |-> key, v |-> value.v]))

\* EnumMetadata._VALID_UNDERLYING_TYPES, among the scalar classes modelled
VALID_UNDERLYING_TYPES == {"u8", "u16_be", "u16_le"}

\* EnumMetadata.__init__ without the validation of the literals
EnumMeta_new_unvalidated(name, members, underlying) ==
    IF underlying \notin VALID_UNDERLYING_TYPES THEN Raise("TypeError")
    ELSE Ok([kind |-> "Enum", name |-> name, serializer |-> Scalar(underlying, 0),
             members |-> members, byte_size |-> Scalar_bytesize(underlying)])

\* EnumMetadata.__init__ behind EnumMeta.__new__
EnumMeta_new(name, members, underlying) ==
    IF underlying \notin VALID_UNDERLYING_TYPES THEN Raise("TypeError")
    ELSE LET serializer == Scalar(underlying, 0) IN
         IF \E i \in 1..Len(members) : ~Scalar_validate(serializer, members[i].v).ok
         THEN Raise("ValueError")
         ELSE Ok([kind |-> "Enum", name |-> name, serializer |-> serializer,
                  members |-> members,
                  byte_size |-> Scalar_bytesize(underlying)])

\* Enum._heracles_validate_ accepting every value of the underlying range
Enum_validate_range_only(E, value) == Scalar_validate(E.serializer, value)

\* Enum._heracles_validate_(value)
Enum_validate(E, value) ==
    LET r == Scalar_validate(E.serializer, value) IN
    IF ~r.ok THEN r
    ELSE IF r.v \notin LiteralValues(E.members) THEN Raise("ValueError")
    ELSE Ok(r.v)

\* Enum.__init__(value) for an int value: the value the instance holds
Enum_init(E, value) == Enum_validate(E, value)

\* Enum.serialize_value
Enum_serialize_value(E, value) == Scalar_serialize_value(E.serializer, value)

\* Enum.deserialize
Enum_deserialize(E, raw_data) == Scalar_deserialize(E.serializer, raw_data)

\* Enum._heracles_compare_
Enum_compare(E, other, value) == Scalar_compare(E.serializer, other, value)

(***************************************************************************)
(* SpecEnum: the operations of one enum codec.  InitEnum draws the enum    *)
(* type, declared as `class E(Enum, underlying=...)` with a body of        *)
(* literals, and the operand; each action applies one operation of enum.py *)
(* to the operand.                                                         *)
(***************************************************************************)
\* The literal names of the class body of E, by position.
LKeys == <<"RED", "GREEN", "BLUE", "ALPHA">>

LiteralDecls == {IntLiteral(0), IntLiteral(2), IntLiteral(256), auto}

RECURSIVE EnumBody(_, _, _)
EnumBody(members, decls, keys) ==
    IF decls = <<>> THEN Ok(members)
    ELSE LET r == on_literal_add(members, Head(keys), Head(decls))
         IN IF ~r.ok THEN r ELSE EnumBody(r.v, Tail(decls), Tail(keys))

\* `class E(Enum, underlying=underlying): decls`
EnumClass(name, decls, underlying) ==
    LET b == EnumBody(<<>>, decls, LKeys) IN
    IF ~b.ok THEN b ELSE EnumMeta_new(name, b.v, underlying)

\* The enum types over u8 and u16_be that the library creates.
EnumTypes ==
    LET rs == {EnumClass("E", decls, underlying) :
                  decls \in SeqsUpTo(LiteralDecls, MaxLiterals),
                  underlying \in {"u8", "u16_be", "char"}}
    IN {r.v : r \in {x \in rs : x.ok}}

EnumValues == {-1, 0, 1, 2, 3, 256, 65536}

EnumInputs(E) ==
    {[op |-> "input", type |-> "int", arg |-> x] : x \in EnumValues}
    \cup {[op |-> "input", type |-> "bytes", arg |-> x] :
             x \in SeqsUpTo({0, 1, 2, 3}, E.byte_size + 1)}

InitEnum ==
    /\ structs = <<>>
    /\ classdict = NoClassdict
    /\ self \in EnumTypes
    /\ last \in EnumInputs(self)

\* E(value)
EnumInit ==
    /\ last.op = "input" /\ last.type = "int"
    /\ last' = [op |-> "init", value |-> last.arg, res |-> Enum_init(self, last.arg)]
    /\ UNCHANGED <<structs, classdict, self>>

\* E(literal)._heracles_validate_(value)
EnumValidate ==
    /\ last.op = "input" /\ last.type = "int"
    /\ last' = [op |-> "validate", value |-> last.arg,
                res |-> Enum_validate(self, last.arg)]
    /\ UNCHANGED <<structs, classdict, self>>

\* E(literal).serialize_value(value)
EnumSerializeValue ==
    /\ last.op = "input" /\ last.type = "int"
    /\ last' = [op |-> "serialize_value", value |-> last.arg,
                res |-> Enum_serialize_value(self, last.arg)]
    /\ UNCHANGED <<structs, classdict, self>>

\* E(literal).deserialize(raw_data)
EnumDeserialize ==
    /\ last.op = "input" /\ last.type = "bytes"
    /\ last' = [op |-> "deserialize", raw_data |-> last.arg,
                res |-> Enum_deserialize(self, last.arg)]
    /\ UNCHANGED <<structs, classdict, self>>

NextEnum == EnumInit \/ EnumValidate \/ EnumSerializeValue \/ EnumDeserialize

SpecEnum == InitEnum /\ [][NextEnum]_vars

(***************************************************************************)
(* C12.  Enum validate, and enum construction with an explicit value, fail *)
(* with a validation error for every value outside the underlying codec's  *)
(* range or not equal to a declared literal, and succeed for every         *)
(* declared literal value.                                                 *)
(***************************************************************************)
InUnderlyingRange(E, value) ==
    0 <= value /\ value < (IF E.byte_size = 1 THEN 256 ELSE 65536)

IsLiteral(E, value) == \E i \in 1..Len(E.members) : E.members[i].v = value

C12_EnumValidate ==
    last.op \in {"validate", "init"} =>
        IF InUnderlyingRange(self, last.value) /\ IsLiteral(self, last.value)
        THEN last.res.ok /\ last.res.v = last.value
        ELSE ~last.res.ok /\ last.res.err = "ValueError"

\* A value inside the underlying range that is no literal of a non-empty
\* enum was given to the constructor.
C12_Witness ==
    /\ last.op = "init"
    /\ self.members # <<>>
    /\ InUnderlyingRange(self, last.value) /\ ~IsLiteral(self, last.value)
    /\ ~last.res.ok

(***************************************************************************)
(* C13.  Enum decode enforces membership: decoding bytes whose integer     *)
(* value is in the underlying codec's range but is no declared literal     *)
(* fails with a validation error instead of returning that integer.        *)
(***************************************************************************)
C13_EnumDecodeEnforcesMembership ==
    (last.op = "deserialize" /\ Len(last.raw_data) = self.byte_size
       /\ ~IsLiteral(self, unpack(self.serializer.cls, last.raw_data).v))
        => (~last.res.ok /\ last.res.err = "ValueError")

(***************************************************************************)
(* C14.  For a struct with a hidden padding member, decoding input whose   *)
(* bytes in the padding region differ from the padding's default encoding  *)
(* fails with a validation error; decoding input whose padding region      *)
(* equals the default, and whose other members decode, succeeds, and the   *)
(* padding is no field of the instance returned.                           *)
(***************************************************************************)
IsPadding(member) == Member_is_hidden(member) /\ member.serializer.kind = "Array"

\* The bytes of raw_data at the place of the i-th member in the layout.
Region(T, i, raw_data) ==
    LET offset == Sum([j \in 1..(i - 1) |-> Member_byte_size(T.members[j])])
    IN SubSeq(raw_data, offset + 1, offset + Member_byte_size(T.members[i]))

PaddingIntact(T, raw_data) ==
    \A i \in 1..Len(T.members) :
        IsPadding(T.members[i]) =>
            Region(T, i, raw_data) = Ser_serialize(T.members[i].serializer).v

C14_PaddingChecked ==
    (last.op = "deserialize" /\ Len(last.raw_data) >= self.type.byte_size
       /\ \E i \in 1..Len(self.type.members) : IsPadding(self.type.members[i]))
    => IF ~PaddingIntact(self.type, last.raw_data)
       THEN ~last.res.ok /\ last.res.err = "ValueError"
       ELSE ExpectedWalk(self.type.members, last.raw_data, <<>>).ok
              => (last.res.ok /\ DOMAIN last.res.v = VisibleNames(self.type))

(***************************************************************************)
(* Attribute assignment and deletion on created types.  The class          *)
(* namespace of a type (type.__dict__) maps attribute names to values; at  *)
(* creation it holds the metadata under SerializerMeta.METAATTR.  Members  *)
(* and literals are no entries of it: on_member_add and on_literal_add     *)
(* keep them out of the class body's mapping.                              *)
(***************************************************************************)
METAATTR == "_heracles_metadata"
RESERVED_ATTRS ==
    {"__metadata__", "__bytesize__", "__ishidden__", "__isvst__", "__iswrapper__"}

Metadata == [kind |-> "metadata", v |-> 0]

\* The namespace of a type right after its creation.
NewNamespace == (METAATTR :> Metadata)

\* SerializerMeta._validate_setattr and SerializerMeta.__setattr__
SerializerMeta_setattr(dict, name, value) ==
    IF name = METAATTR /\ name \in DOMAIN dict THEN Raise("AttributeError")
    ELSE IF name \in RESERVED_ATTRS THEN Raise("AttributeError")
    ELSE Ok((name :> value) @@ dict)

\* type.__delattr__
type_delattr(dict, name) ==
    IF name \notin DOMAIN dict THEN Raise("AttributeError")
    ELSE Ok([n \in DOMAIN dict \ {name} |-> dict[n]])

\* StructMeta.__setattr__ without the look-up among the members
StructMeta_setattr_unguarded(T, dict, name, value) ==
    SerializerMeta_setattr(dict, name, value)

\* StructMeta.__setattr__: for a member name the StructMember found has no
\* _heracles_validate_, so the call on it raises AttributeError.
StructMeta_setattr(T, dict, name, value) ==
    IF Name(name) \in Keys(T.members) THEN Raise("AttributeError")
    ELSE SerializerMeta_setattr(dict, name, value)

\* StructMeta.__delattr__
StructMeta_delattr(T, dict, name) ==
    IF Name(name) \in Keys(T.members) THEN Raise("AttributeError")
    ELSE type_delattr(dict, name)

\* EnumMeta.__setattr__
EnumMeta_setattr(E, dict, name, value) ==
    IF name \in LiteralKeys(E.members) THEN Raise("AttributeError")
    ELSE SerializerMeta_setattr(dict, name, value)

\* EnumMeta.__delattr__
EnumMeta_delattr(E, dict, name) ==
    IF name \in LiteralKeys(E.members) THEN Raise("AttributeError")
    ELSE type_delattr(dict, name)

\* StructMeta.__getattr__ / EnumMeta.__getattr__ behind the normal look-up:
\* the namespace first, then the members.
Type_getattr(T, dict, name) ==
    IF name \in DOMAIN dict THEN Ok(dict[name])
    ELSE IF "kind" \in DOMAIN T
         THEN (IF name \in LiteralKeys(T.members)
               THEN Ok(IntLiteral(CHOOSE v \in LiteralValues(T.members) :
                          \E i \in 1..Len(T.members) :
                              T.members[i].key = name /\ T.members[i].v = v))
               ELSE Raise("AttributeError"))
    ELSE IF Name(name) \in Keys(T.members)
         THEN Ok(T.members[IndexOf(T.members, Name(name))])
    ELSE Raise("AttributeError")

(***************************************************************************)
(* SpecMut: attribute assignments and deletions on one created type, a     *)
(* struct or an enum.  self is the type, classdict its namespace.          *)
(***************************************************************************)
IsEnumType(T) == "kind" \in DOMAIN T

MemberNamesOf(T) ==
    IF IsEnumType(T) THEN LiteralKeys(T.members)
    ELSE {k.name : k \in {key \in Keys(T.members) : ~IsSentinel(key)}}

\* Names offered: every name the class body used, a name it did not use,
\* the metadata attribute and a reserved name.
AttrNames(T) ==
    (IF IsEnumType(T) THEN LiteralKeys(T.members)
     ELSE {MappingKeys(T)[i] : i \in 1..Len(MappingKeys(T))})
    \cup {UnknownKey, METAATTR, "__bytesize__"}

\* Names offered for deletion: the same, but for the metadata attribute.
DelNames(T) == AttrNames(T) \ {METAATTR}

AttrValues == {IntLiteral(0), IntLiteral(1)}

InitMut ==
    /\ structs = <<>>
    /\ self \in STypes \cup UNION {TTypes(S) : S \in STypes} \cup EnumTypes
    /\ classdict = NewNamespace
    /\ last = [op |-> "start"]

\* `T.name = value` on a struct type
StructSetattr ==
    /\ ~IsEnumType(self)
    /\ \E name \in AttrNames(self), value \in AttrValues :
         LET r == StructMeta_setattr(self, classdict, name, value) IN
         /\ classdict' = IF r.ok THEN r.v ELSE classdict
         /\ last' = [op |-> "setattr", name |-> name, res |-> r]
    /\ UNCHANGED <<structs, self>>

\* `del T.name` on a struct type
StructDelattr ==
    /\ ~IsEnumType(self)
    /\ \E name \in DelNames(self) :
         LET r == StructMeta_delattr(self, classdict, name) IN
         /\ classdict' = IF r.ok THEN r.v ELSE classdict
         /\ last' = [op |-> "delattr", name |-> name, res |-> r]
    /\ UNCHANGED <<structs, self>>

\* `E.name = value` on an enum type
EnumSetattr ==
    /\ IsEnumType(self)
    /\ \E name \in AttrNames(self), value \in AttrValues :
         LET r == EnumMeta_setattr(self, classdict, name, value) IN
         /\ classdict' = IF r.ok THEN r.v ELSE classdict
         /\ last' = [op |-> "setattr", name |-> name, res |-> r]
    /\ UNCHANGED <<structs, self>>

\* `del E.name` on an enum type
EnumDelattr ==
    /\ IsEnumType(self)
    /\ \E name \in DelNames(self) :
         LET r == EnumMeta_delattr(self, classdict, name) IN
         /\ classdict' = IF r.ok THEN r.v ELSE classdict
         /\ last' = [op |-> "delattr", name |-> name, res |-> r]
    /\ UNCHANGED <<structs, self>>

NextMut == StructSetattr \/ StructDelattr \/ EnumSetattr \/ EnumDelattr

SpecMut == InitMut /\ [][NextMut]_vars

Packable(a, value) ==
    /\ Len(value) <= a.stop
    /\ \A i \in 1..Len(value) : metadata_validator(a.serializer.cls, value[i])

C16_EncodeSkipsValidators ==
    (last.op = "serialize_value" /\ Packable(self, last.value)) => last.res.ok

(***************************************************************************)
(* Instances as objects.  A field holds a Python object: an immutable one  *)
(* (an int, a tuple) is given by its value, Imm(v); a list is a reference  *)
(* Ref(k) to the k-th list object of the heap, whose contents in-place     *)
(* operations change.  ListLiteral(v) is a list the caller has just        *)
(* created for the call.                                                   *)
(***************************************************************************)
Imm(v) == [id |-> 0, v |-> v, w |-> FALSE]
Ref(k) == [id |-> k, v |-> <<>>, w |-> FALSE]
ListLiteral(v) == [id |-> -1, v |-> v, w |-> FALSE]

\* A serializer instance that wraps the object val: u8(1), Array[...]([1])
Wrapper(val) == [val EXCEPT !.w = TRUE]

Deref(heap, val) == IF val.id = 0 THEN val.v ELSE heap[val.id]

Contents(heap, fields) == [n \in DOMAIN fields |-> Deref(heap, fields[n])]

\* The caller's evaluation of a list display: a new list object.
Alloc(heap, val) ==
    IF val.id = -1
    THEN [heap |-> Append(heap, val.v),
          val |-> [Ref(Len(heap) + 1) EXCEPT !.w = val.w]]
    ELSE [heap |-> heap, val |-> val]

\* _utils.copy_if_mutable: a copy of a list, the object itself otherwise
copy_if_mutable(heap, val) ==
    IF val.id = 0 THEN [heap |-> heap, val |-> Imm(val.v)]
    ELSE [heap |-> Append(heap, heap[val.id]), val |-> Ref(Len(heap) + 1)]

\* The loop of Struct.__init__ over the members for a dict value, with the
\* unwrapping of Struct.__getattribute__ on the first read of each field.
RECURSIVE InitFields(_, _, _, _, _)
InitFields(members, value, heap, defaults, fields) ==
    IF members = <<>> THEN [heap |-> heap, fields |-> fields]
    ELSE LET name == Head(members).key.name
             r == IF name \in DOMAIN value THEN Alloc(heap, value[name])
                  ELSE copy_if_mutable(heap, defaults[name])
         IN InitFields(Tail(members), value, r.heap, defaults,
                       (name :> r.val) @@ fields)

\* Struct.__init__(value) for a dict value: the heap and the fields after it
Instance_init(T, heap, defaults, value) ==
    LET r == InitFields(Visible(T), value, heap, defaults, <<>>) IN
    IF DOMAIN value \ VisibleNames(T) # {} THEN Raise("UnknownFieldsError")
    ELSE IF ~Struct_validate(T, Contents(r.heap, r.fields)).ok
         THEN Raise("ValueError")
    ELSE Ok(r)

\* Struct.__init__(value) for a Struct value: each field is set to the
\* object getattr(value, name) returns.
Instance_copy(T, heap, fields) ==
    IF ~Struct_validate(T, Contents(heap, fields)).ok THEN Raise("ValueError")
    ELSE Ok([heap |-> heap, fields |-> fields])

\* Struct.__getattribute__ returning the wrapper's value without storing it
Instance_getattribute_nostore(heap, fields, name) ==
    [heap |-> heap, fields |-> fields, value |-> Deref(heap, fields[name])]

\* Struct.__getattribute__(name) for a field name: the heap and the fields
\* after the read, and the value returned
Instance_getattribute(heap, fields, name) ==
    IF fields[name].w
    THEN LET r == copy_if_mutable(heap, fields[name])
         IN [heap |-> r.heap, fields |-> (name :> r.val) @@ fields,
             value |-> Deref(r.heap, r.val)]
    ELSE [heap |-> heap, fields |-> fields, value |-> Deref(heap, fields[name])]

\* Serializer.__setattr__ on a struct instance, for a field name
Instance_setattr(fields, name, val) ==
    IF name = METAATTR \/ name \in RESERVED_ATTRS THEN Raise("AttributeError")
    ELSE Ok((name :> val) @@ fields)

(***************************************************************************)
(* SpecInst: two instances a and b of one struct type, with assignments,   *)
(* reads and in-place mutations on a.  self holds the type, the heap of    *)
(* list objects, the default objects of the member serializers and the     *)
(* attribute dictionaries of a and b.                                      *)
(***************************************************************************)
\* The struct types instantiated: one visible member, alone or after a u8
InstTypes ==
    LET rs == {Class("S", <<>>, decls, SKeys, 1) :
                  decls \in {<<c>> : c \in Catalog} \cup {<<U8, c>> : c \in Catalog}}
    IN {T \in {r.v : r \in {x \in rs : x.ok}} : Visible(T) # <<>>}

MemberOf(T, name) ==
    Visible(T)[CHOOSE i \in 1..Len(Visible(T)) : Visible(T)[i].key.name = name]

\* Objects offered for a field: tuples and ints, and new lists
InstValues(s) ==
    IF s.kind = "Array"
    THEN {Imm(<<1>>), Imm([i \in 1..(s.stop + 1) |-> 1]),
          ListLiteral(<<1>>)}
    ELSE {Imm(v) : v \in ElemInputs(s.cls)}

\* Serializer instances offered in an assignment: u8(1), Array[...]([1])
InstWrappers(s) ==
    IF s.kind = "Array" THEN {Wrapper(ListLiteral(<<1>>))} ELSE {Wrapper(Imm(1))}

RECURSIVE InstMappingsOver(_)
InstMappingsOver(members) ==
    IF members = <<>> THEN {<<>>}
    ELSE LET rest == InstMappingsOver(Tail(members))
             name == Head(members).key.name
         IN rest \cup {(name :> v) @@ f :
                          v \in InstValues(Head(members).serializer), f \in rest}

\* The dicts offered to the constructor: any subset of the visible names
InstMappings(T) == InstMappingsOver(Visible(T))

\* The objects the member serializers hold as their values: a list when the
\* array member was declared with a list, the tuple or int otherwise.
RECURSIVE MemberDefaults(_, _, _, _)
MemberDefaults(members, mutable, heap, defaults) ==
    IF members = <<>> THEN [heap |-> heap, defaults |-> defaults]
    ELSE LET m == Head(members)
             r == IF mutable /\ m.serializer.kind = "Array"
                  THEN Alloc(heap, ListLiteral(m.serializer.value))
                  ELSE Alloc(heap, Imm(m.serializer.value))
         IN MemberDefaults(Tail(members), mutable, r.heap,
                           (m.key.name :> r.val) @@ defaults)

NoInstance == [live |-> FALSE, fields |-> <<>>]

\* The list objects no attribute refers to any more are released: the heap
\* keeps the objects the defaults, a and b refer to, in allocation order.
Collect(st) ==
    LET ids == {st.defaults[n].id : n \in DOMAIN st.defaults}
                 \cup {st.a.fields[n].id : n \in DOMAIN st.a.fields}
                 \cup {st.b.fields[n].id : n \in DOMAIN st.b.fields}
        R == {k \in ids : k > 0}
        idx(k) == Cardinality({j \in R : j <= k})
        ren(fields) ==
            [n \in DOMAIN fields |->
                IF fields[n].id > 0 THEN [fields[n] EXCEPT !.id = idx(@)]
                ELSE fields[n]]
    IN [heap |-> [i \in 1..Cardinality(R) |->
                     st.heap[CHOOSE k \in R : idx(k) = i]],
        defaults |-> ren(st.defaults),
        a |-> [st.a EXCEPT !.fields = ren(@)],
        b |-> [st.b EXCEPT !.fields = ren(@)]]

InitInst ==
    /\ structs \in {<<T>> : T \in InstTypes}
    /\ classdict = NoClassdict
    /\ \E mutable \in BOOLEAN :
         LET d == MemberDefaults(Visible(structs[1]), mutable, <<>>, <<>>)
         IN self = [heap |-> d.heap, defaults |-> d.defaults,
                    a |-> NoInstance, b |-> NoInstance]
    /\ last = [op |-> "start"]

\* `a = S(value)`
ConstructA ==
    /\ ~self.a.live
    /\ \E value \in InstMappings(structs[1]) :
         LET r == Instance_init(structs[1], self.heap, self.defaults, value) IN
         /\ self' = IF r.ok
                    THEN Collect([self EXCEPT !.heap = r.v.heap,
                                      !.a = [live |-> TRUE, fields |-> r.v.fields]])
                    ELSE self
         /\ last' = [op |-> "construct", from |-> "dict", ok |-> r.ok, err |-> r.err]
    /\ UNCHANGED <<structs, classdict>>

\* `b = S(value)`, constructed separately from a
ConstructB ==
    /\ self.a.live /\ ~self.b.live
    /\ \E value \in InstMappings(structs[1]) :
         LET r == Instance_init(structs[1], self.heap, self.defaults, value) IN
         /\ self' = IF r.ok
                    THEN Collect([self EXCEPT !.heap = r.v.heap,
                                      !.b = [live |-> TRUE, fields |-> r.v.fields]])
                    ELSE self
         /\ last' = [op |-> "construct", from |-> "dict", ok |-> r.ok, err |-> r.err]
    /\ UNCHANGED <<structs, classdict>>

\* `b = S(a)`
ConstructBFromA ==
    /\ self.a.live /\ ~self.b.live
    /\ LET r == Instance_copy(structs[1], self.heap, self.a.fields) IN
         /\ self' = IF r.ok
                    THEN Collect([self EXCEPT !.b = [live |-> TRUE, fields |-> r.v.fields]])
                    ELSE self
         /\ last' = [op |-> "construct", from |-> "a", ok |-> r.ok, err |-> r.err]
    /\ UNCHANGED <<structs, classdict>>

\* `a.name = value`
AssignA ==
    /\ self.a.live
    /\ \E name \in VisibleNames(structs[1]) :
         \E value \in InstValues(MemberOf(structs[1], name).serializer)
                         \cup InstWrappers(MemberOf(structs[1], name).serializer) :
           LET o == Alloc(self.heap, value)
               r == Instance_setattr(self.a.fields, name, o.val)
           IN /\ self' = IF r.ok
                         THEN Collect([self EXCEPT !.heap = o.heap, !.a.fields = r.v])
                         ELSE self
              /\ last' = [op |-> "assign", name |-> name, value |-> value.v,
                          before |-> Deref(self.heap, self.a.fields[name]),
                          ok |-> r.ok, err |-> r.err]
    /\ UNCHANGED <<structs, classdict>>

\* `a.name`
ReadA ==
    /\ self.a.live
    /\ \E name \in VisibleNames(structs[1]) :
         LET r == Instance_getattribute(self.heap, self.a.fields, name) IN
         /\ self' = Collect([self EXCEPT !.heap = r.heap, !.a.fields = r.fields])
         /\ last' = [op |-> "read", name |-> name, value |-> r.value,
                     unwrapped |-> self.a.fields[name].w]
    /\ UNCHANGED <<structs, classdict>>

\* `a.name.append(1)` on a field that holds a list
MutateA ==
    /\ self.a.live
    /\ \E name \in VisibleNames(structs[1]) :
         LET k == self.a.fields[name].id IN
         /\ k > 0 /\ ~self.a.fields[name].w
         /\ Len(self.heap[k]) <= MaxCount
         /\ self' = Collect([self EXCEPT !.heap[k] = Append(@, 1)])
         /\ last' = [op |-> "mutate", name |-> name]
    /\ UNCHANGED <<structs, classdict>>

\* `a.serialize()`
SerializeA ==
    /\ self.a.live
    /\ LET r == Struct_serialize_value(structs[1],
                                       Contents(self.heap, self.a.fields))
       IN last' = [op |-> "serialize", ok |-> r.ok, err |-> r.err]
    /\ UNCHANGED <<structs, classdict, self>>

NextInst ==
    ConstructA \/ ConstructB \/ ConstructBFromA \/ AssignA \/ ReadA \/ MutateA
        \/ SerializeA

SpecInst == InitInst /\ [][NextInst]_vars

\* C17: once b exists, an assignment, a read or an in-place mutation on a
\* leaves every field of b and every default value of the member
\* serializers as it was.
C17_InstancesIndependent ==
    [][(self.b.live /\ last'.op \in {"assign", "read", "mutate"})
         => /\ Contents(self'.heap, self'.b.fields) = Contents(self.heap, self.b.fields)
            /\ Contents(self'.heap, self'.defaults) = Contents(self.heap, self.defaults)]_vars

\* C18: an assignment of a value the field's serializer rejects fails with
\* a ValueError and leaves the previous value; an accepted value is stored.
C18_AssignmentValidates ==
    last.op = "assign" =>
        IF Ser_validate(MemberOf(structs[1], last.name).serializer, last.value).ok
        THEN last.ok /\ Deref(self.heap, self.a.fields[last.name]) = last.value
        ELSE /\ ~last.ok /\ last.err = "ValueError"
             /\ Deref(self.heap, self.a.fields[last.name]) = last.before

(***************************************************************************)
(* SpecBases: the class statement `class U(S, T):` over two created        *)
(* structs S and T that have no bases of their own.                        *)
(***************************************************************************)
\* The struct types T with at most one member that the library creates.
SecondBases ==
    LET rs == {Class("T", <<>>, decls, TKeys, MaxOwn + 1) :
                  decls \in SeqsUpTo(Catalog, 1)}
    IN {r.v : r \in {x \in rs : x.ok}}

InitBases ==
    /\ structs \in {<<S, T>> : S \in STypes, T \in SecondBases}
                      \cup {<<T, S>> : S \in STypes, T \in SecondBases}
    /\ classdict = NoClassdict
    /\ self = <<>>
    /\ last = [op |-> "start"]

\* `class U(S, T):` -- StructMeta.__prepare__
PrepareBases ==
    /\ ~classdict.active
    /\ Len(structs) = Len(TypeNames) - 1
    /\ classdict' = [active |-> TRUE, bases |-> <<1, 2>>, members |-> <<>>]
    /\ last' = [op |-> "prepare", bases |-> <<1, 2>>]
    /\ UNCHANGED <<structs, self>>

NextBases == PrepareBases \/ MemberAdd \/ New

SpecBases == InitBases /\ [][NextBases]_vars

\* The variable-size base is the last of the bases that has members.
VstBaseIsLast(bases) ==
    \E i \in 1..Len(bases) :
        /\ Struct_is_vst(bases[i])
        /\ \A j \in 1..Len(bases) :
              /\ j < i => ~Struct_is_vst(bases[j])
              /\ j > i => bases[j].members = <<>>

\* C19: a class statement over two bases fails when the first base is
\* variable-size and the second has a member, and succeeds when the
\* variable-size base is the last base with members and the body declares
\* no member.
C19_TwoBases ==
    (last.op = "new" /\ Len(last.bases) = 2) =>
        /\ (Struct_is_vst(last.bases[1]) /\ last.bases[2].members # <<>>)
              => (~last.res.ok /\ last.res.err = "BaseVstError")
        /\ (VstBaseIsLast(last.bases) /\ last.members = <<>>) => last.res.ok

\* The first half of C19 alone
C19_VstBaseFirstRejected ==
    (last.op = "new" /\ Len(last.bases) = 2
       /\ Struct_is_vst(last.bases[1]) /\ last.bases[2].members # <<>>)
        => (~last.res.ok /\ last.res.err = "BaseVstError")

(***************************************************************************)
(* Array[size, serializer] with any size argument.  A Python object given  *)
(* as a bound is modelled by its type and, for an int, its value; 1.5      *)
(* stands for the objects that are neither an int nor None.                *)
(***************************************************************************)
PyInt(n) == [t |-> "int", v |-> n]
PyNone == [t |-> "NoneType", v |-> 0]
PyFloat == [t |-> "float", v |-> 0]
slice(start, stop, step) ==
    [t |-> "slice", start |-> start, stop |-> stop, step |-> step]

\* ArrayMetadata(array_size=size, serializer=serializer)
ArrayMetadata(array_size, serializer) ==
    [created |-> TRUE, array_size |-> array_size, serializer |-> serializer,
     byte_size |-> array_size.start.v * Ser_bytesize(serializer)]

\* ArrayMeta.__getitem__ without the check of a hidden element type
ArrayMeta_getitem_args_any_element(size, serializer) ==
    LET norm == IF size.t = "int" THEN slice(size, size, PyNone)
                ELSE IF size.start.t = "NoneType"
                     THEN slice(PyInt(0), size.stop, size.step)
                ELSE size
    IN
    IF size.t = "int" /\ size.v < 0 THEN Raise("ValueError")
    ELSE IF size.t = "slice" /\ size.step.t # "NoneType" THEN Raise("ValueError")
    ELSE IF size.t = "slice"
            /\ (norm.start.t # "int" \/ norm.stop.t \notin {"int", "NoneType"})
         THEN Raise("ValueError")
    ELSE IF size.t = "slice" /\ norm.start.v < 0 THEN Raise("ValueError")
    ELSE IF size.t = "slice" /\ norm.stop.t # "NoneType"
            /\ norm.stop.v < norm.start.v
         THEN Raise("ValueError")
    ELSE IF size.t \notin {"int", "slice"} THEN Raise("TypeError")
    ELSE IF ~IsSerializer(serializer) THEN Raise("TypeError")
    ELSE Ok(ArrayMetadata(norm, serializer))

\* ArrayMeta.__getitem__((size, serializer))
ArrayMeta_getitem_args(size, serializer) ==
    LET norm == IF size.t = "int" THEN slice(size, size, PyNone)
                ELSE IF size.start.t = "NoneType"
                     THEN slice(PyInt(0), size.stop, size.step)
                ELSE size
    IN
    IF size.t = "int" /\ size.v < 0 THEN Raise("ValueError")
    ELSE IF size.t = "slice" /\ size.step.t # "NoneType" THEN Raise("ValueError")
    ELSE IF size.t = "slice"
            /\ (norm.start.t # "int" \/ norm.stop.t \notin {"int", "NoneType"})
         THEN Raise("ValueError")
    ELSE IF size.t = "slice" /\ norm.start.v < 0 THEN Raise("ValueError")
    ELSE IF size.t = "slice" /\ norm.stop.t # "NoneType"
            /\ norm.stop.v < norm.start.v
         THEN Raise("ValueError")
    ELSE IF size.t \notin {"int", "slice"} THEN Raise("TypeError")
    ELSE IF ~IsSerializer(serializer) THEN Raise("TypeError")
    ELSE IF Ser_ishidden(serializer) /\ norm.start # norm.stop
         THEN Raise("ValueError")
    ELSE Ok(ArrayMetadata(norm, serializer))

\* ArrayMeta.__isvst__ of a created array type
ArrayMeta_isvst(meta) == meta.array_size.start # meta.array_size.stop

(***************************************************************************)
(* SpecSize: array types created from any size argument.  self is the      *)
(* metadata of the array type created last.                                *)
(***************************************************************************)
Bounds == {PyInt(n) : n \in (-1)..MaxCount} \cup {PyNone, PyFloat}

SizeArgs ==
    {PyInt(n) : n \in (-1)..MaxCount} \cup {PyFloat}
        \cup {slice(start, stop, step) :
                 start \in Bounds, stop \in Bounds, step \in {PyNone, PyInt(1)}}

ElementArgs == {U8, Scalar("PadByte", 0), PaddingArray, NotASerializer}

InitSize ==
    /\ structs = <<>>
    /\ classdict = NoClassdict
    /\ self = [created |-> FALSE]
    /\ last = [op |-> "start"]

\* `Array[size, serializer]`
ArrayGetitem ==
    /\ \E size \in SizeArgs, serializer \in ElementArgs :
         LET r == ArrayMeta_getitem_args(size, serializer) IN
         /\ self' = IF r.ok THEN r.v ELSE self
         /\ last' = [op |-> "getitem", size |-> size, serializer |-> serializer,
                     ok |-> r.ok, err |-> r.err]
    /\ UNCHANGED <<structs, classdict>>

\* `isvst(A)` on the array type created last
ArrayIsvst ==
    /\ self.created
    /\ last' = [op |-> "isvst", res |-> ArrayMeta_isvst(self)]
    /\ UNCHANGED <<structs, classdict, self>>

NextSize == ArrayGetitem \/ ArrayIsvst

SpecSize == InitSize /\ [][NextSize]_vars

\* min_count and max_count asked for by a size argument made of ints and
\* None (an open start is 0, an open stop is no maximum)
IsInt(b) == b.t = "int"
MinCount(size) ==
    IF size.t = "int" THEN size.v
    ELSE IF size.start.t = "NoneType" THEN 0 ELSE size.start.v

\* The malformed arguments named by the specification
Malformed(size, serializer) ==
    \/ size.t \notin {"int", "slice"}
    \/ size.t = "int" /\ size.v < 0
    \/ /\ size.t = "slice"
       /\ \/ size.step.t # "NoneType"
          \/ size.start.t \notin {"int", "NoneType"}
          \/ size.stop.t \notin {"int", "NoneType"}
          \/ IsInt(size.start) /\ size.start.v < 0
          \/ IsInt(size.stop) /\ size.stop.v < 0
          \/ /\ size.start.t \in {"int", "NoneType"} /\ IsInt(size.stop)
             /\ MinCount(size) > size.stop.v
          \/ /\ IsSerializer(serializer) /\ Ser_ishidden(serializer)
             /\ size.start.t \in {"int", "NoneType"}
             /\ ~(IsInt(size.stop) /\ size.stop.v = MinCount(size))

\* C20: Array[size, serializer] fails with a ValueError or a TypeError for
\* min_count > max_count, a negative bound, a bound that is no integer, a
\* slice step, or a hidden element with min_count # max_count; every array
\* type created has 0 <= min_count <= max_count, and min_count = max_count
\* when its element is hidden.
C20_ArrayMetadataInvariant ==
    /\ last.op = "getitem" =>
          (Malformed(last.size, last.serializer)
              => (~last.ok /\ last.err \in {"ValueError", "TypeError"}))
    /\ self.created =>
          /\ IsInt(self.array_size.start) /\ self.array_size.start.v >= 0
          /\ self.array_size.stop.t \in {"int", "NoneType"}
          /\ IsInt(self.array_size.stop)
                => self.array_size.start.v <= self.array_size.stop.v
          /\ Ser_ishidden(self.serializer)
                => (self.array_size.stop = self.array_size.start
                      /\ ~ArrayMeta_isvst(self))

\* A variable-size array of a hidden element was asked for and refused,
\* after an array type was created.
C20_Witness ==
    /\ last.op = "getitem" /\ last.size.t = "slice"
    /\ IsInt(last.size.start) /\ IsInt(last.size.stop)
    /\ last.size.step.t = "NoneType"
    /\ 0 <= last.size.start.v /\ last.size.start.v < last.size.stop.v
    /\ IsSerializer(last.serializer) /\ Ser_ishidden(last.serializer)
    /\ ~last.ok
    /\ self.created

\* C21: a[i] for i >= 0 is the assigned element when i < len(value), the
\* element serializer's default when len(value) <= i < max_count, and an
\* IndexError when i >= max_count.
C21_ArrayIndexing ==
    (last.op = "getitem" /\ last.idx >= 0) =>
        IF last.idx >= self.stop
        THEN ~last.res.ok /\ last.res.err = "IndexError"
        ELSE /\ last.res.ok
             /\ last.res.v = IF last.idx < Len(self.value)
                             THEN self.value[last.idx + 1]
                             ELSE self.serializer.value

\* An index past a non-empty assigned value and below max_count was read.
C21_Witness ==
    /\ last.op = "getitem"
    /\ 0 < Len(self.value) /\ Len(self.value) <= last.idx
    /\ last.idx < self.stop
    /\ last.res.ok

\* A sequence extended with the default up to n elements
PadTo(seq, n, fillvalue) ==
    [i \in 1..n |-> IF i <= Len(seq) THEN seq[i] ELSE fillvalue]

\* C22: compare returns and never raises; it is false when an operand has
\* more than max_count elements, otherwise true iff the operands are equal
\* once the shorter is extended with the element default; it is symmetric.
C22_ArrayCompare ==
    last.op = "compare" =>
        LET n == Max(Len(last.other), Len(last.value)) IN
        /\ last.res.ok
        /\ last.res.v = (/\ Len(last.other) <= self.stop
                         /\ Len(last.value) <= self.stop
                         /\ PadTo(last.other, n, self.serializer.value)
                              = PadTo(last.value, n, self.serializer.value))
        /\ last.swapped = last.res

\* A value compared equal to a longer operand that is its default-padded form.
C22_Witness ==
    /\ last.op = "compare"
    /\ 0 < Len(last.value) /\ Len(last.value) < Len(last.other)
    /\ last.res.ok /\ last.res.v

\* C23: serializing, validating or comparing against a value of another
\* concrete type fails with a type-mismatch error (TypeError, or the
\* ValueError validate raises for the type) and returns no result.
C23_TypeMismatchRaises ==
    last.op = "foreign" =>
        /\ ~last.res.ok
        /\ last.res.err = IF last.call = "validate" THEN "ValueError"
                          ELSE "TypeError"

\* The serialize and validate part of C23
C23_SerializeValidateRaise ==
    (last.op = "foreign" /\ last.call # "compare") =>
        /\ ~last.res.ok
        /\ last.res.err = IF last.call = "validate" THEN "ValueError"
                          ELSE "TypeError"

\* C24: when a struct is encoded and one of its fields fails validation,
\* the caller gets a validation error (ValueError), never another kind.
C24_EncodeFailureIsValidationError ==
    (last.op = "serialize"
       /\ ~Struct_validate(structs[1], Contents(self.heap, self.a.fields)).ok)
        => (~last.ok /\ last.err = "ValueError")

\* The names of the visible members of a member list
VisibleKeyNames(members) ==
    {members[i].key.name :
        i \in {j \in 1..Len(members) : ~IsSentinel(members[j].key)}}

\* A visible own member has the name of a visible member of a base.
CollidesWithBase(bases, members) ==
    \E i \in 1..Len(bases) :
        VisibleKeyNames(bases[i].members) \cap VisibleKeyNames(members) # {}

\* C25: a declaration in which two visible members have the same name
\* fails, for two own members and for an own member named as an inherited
\* one.
C25_NameCollisionRejected ==
    /\ (last.op = "member_add" /\ IsSerializer(last.value)
          /\ ~Ser_ishidden(last.value)
          /\ last.key \in VisibleKeyNames(last.before))
         => ~last.res.ok
    /\ (last.op = "new" /\ CollidesWithBase(last.bases, last.members))
         => ~last.res.ok

\* The own-member half of C25
C25_OwnCollisionRejected ==
    (last.op = "member_add" /\ IsSerializer(last.value)
       /\ ~Ser_ishidden(last.value)
       /\ last.key \in VisibleKeyNames(last.before))
      => (~last.res.ok /\ last.res.err = "KeyError")

(***************************************************************************)
(* SpecEnumDef: one class statement `class F(Enum, underlying=...)`.  self *)
(* is what the name F is bound to.                                         *)
(***************************************************************************)
UnderlyingArgs == {"u8", "u16_be", "u16_le", "char", "PadByte"}

NoEnum == [created |-> FALSE]

InitEnumDef ==
    /\ structs = <<>>
    /\ classdict = NoClassdict
    /\ self = NoEnum
    /\ last = [op |-> "start"]

\* `class F(Enum, underlying=underlying): decls`
EnumNew ==
    /\ last.op = "start"
    /\ \E decls \in SeqsUpTo(LiteralDecls, MaxLiterals), underlying \in UnderlyingArgs :
         LET body == EnumBody(<<>>, decls, LKeys)
             r == EnumClass("F", decls, underlying)
         IN /\ self' = IF r.ok THEN [created |-> TRUE, type |-> r.v] ELSE self
            /\ last' = [op |-> "new", underlying |-> underlying,
                        members |-> body.v, ok |-> r.ok, err |-> r.err]
    /\ UNCHANGED <<structs, classdict>>

\* `byte_size(F)`
EnumByteSize ==
    /\ self.created
    /\ last' = [op |-> "bytesize", res |-> self.type.byte_size]
    /\ UNCHANGED <<structs, classdict, self>>

NextEnumDef == EnumNew \/ EnumByteSize

SpecEnumDef == InitEnumDef /\ [][NextEnumDef]_vars

\* The fixed-width integer scalars, among the scalar classes modelled
IsIntegerScalar(cls) == cls \in {"u8", "u16_be", "u16_le"}

\* The range of an unsigned integer scalar of the class's width
OutOfRange(cls, v) == v < 0 \/ v >= 2 ^ (8 * Scalar_bytesize(cls))

\* C26: an enum class statement fails, and creates no type, when the
\* underlying serializer is no fixed-width integer scalar and when a
\* literal is outside the underlying range.
C26_EnumDefinitionErrors ==
    last.op = "new" =>
        LET bad == \/ ~IsIntegerScalar(last.underlying)
                   \/ \E i \in 1..Len(last.members) :
                         OutOfRange(last.underlying, last.members[i].v)
        IN /\ bad => (/\ ~last.ok /\ ~self.created
                      /\ last.err = IF IsIntegerScalar(last.underlying)
                                    THEN "ValueError" ELSE "TypeError")
           /\ ~bad => (last.ok /\ self.created /\ self.type.members = last.members)

\* A class statement over u8 with a literal of 256 or more was refused.
C26_Witness ==
    /\ last.op = "new" /\ last.underlying = "u8"
    /\ \E i \in 1..Len(last.members) : last.members[i].v >= 256
    /\ ~last.ok /\ last.err = "ValueError"

\* The encode, byte_size and compare results of an instance with the
\* given field contents
Observed(T, fields) ==
    <<Struct_serialize_value(T, fields), Struct_bytesize(T, fields),
      Struct_compare(T, Struct_init(T, <<>>).v, fields)>>

\* C27: a read of a field that stores a wrapper replaces it by the bare
\* value; a read of a field that stores a bare value changes nothing; the
\* read returns the field's value, and the field contents and the encode,
\* byte_size and compare results are the same before and after the read.
C27_UnwrapIdempotent ==
    [][last'.op = "read" =>
         LET name == last'.name
             before == Contents(self.heap, self.a.fields)
             after == Contents(self'.heap, self'.a.fields)
         IN /\ ~self'.a.fields[name].w
            /\ ~self.a.fields[name].w => self' = self
            /\ last'.value = before[name]
            /\ after = before
            /\ Observed(structs[1], after) = Observed(structs[1], before)
            /\ \A n \in DOMAIN before \ {name} :
                  self'.a.fields[n] = self.a.fields[n]]_vars

\* A field that stored a wrapper of a list has been read.
C27_Witness ==
    /\ last.op = "read" /\ last.unwrapped
    /\ self.a.fields[last.name].id > 0 /\ ~self.a.fields[last.name].w
    /\ last.value # <<>>

\* C28: after T(value), whether it succeeded or not, the caller's dict
\* holds the keys and values it held before the call.
C28_MappingUnchanged ==
    last.op = "init" =>
        /\ DOMAIN last.after = DOMAIN last.value
        /\ \A n \in DOMAIN last.value : last.after[n] = last.value[n]

\* The largest encoding of a struct whose last member is a variable array
MaxEncoding(T) ==
    LET a == last_(T.members).v.serializer IN
    T.byte_size + (a.stop - a.start) * Ser_bytesize(a.serializer)

\* C29: a struct without a variable-size member decodes raw data longer
\* than its byte_size as it decodes the first byte_size bytes; a struct
\* whose last member is variable-size refuses raw data longer than its
\* fixed part plus max_count elements.
C29_ExcessBytes ==
    last.op = "deserialize" =>
        LET T == self.type
            raw_data == last.raw_data
            prefix == Struct_deserialize(T, SubSeq(raw_data, 1, T.byte_size))
        IN /\ (~HasVstMember(T) /\ Len(raw_data) > T.byte_size)
                => /\ last.res.ok = prefix.ok
                   /\ last.res.err = prefix.err
                   /\ last.res.ok => last.res.v = prefix.v
           /\ (VstOnlyLast(T.members) /\ Struct_is_vst(T)
                 /\ Len(raw_data) > MaxEncoding(T))
                => (~last.res.ok /\ last.res.err = "ValueError")

\* Raw data longer than a fixed-size struct with a visible member was
\* decoded.
C29_Witness ==
    /\ last.op = "deserialize"
    /\ ~HasVstMember(self.type) /\ Visible(self.type) # <<>>
    /\ Len(last.raw_data) > self.type.byte_size
    /\ \E i \in (self.type.byte_size + 1)..Len(last.raw_data) :
          last.raw_data[i] # 0
    /\ last.res.ok

(***************************************************************************)
(* SpecValid: validators constructed and called on integers.               *)
(***************************************************************************)
\* BitSizeValidator.__init__(max_bit_size)
BitSizeValidator(max_bit_size) ==
    IF max_bit_size <= 0 THEN Raise("ValueError")
    ELSE Ok(IntRangeValidator(0, 2 ^ max_bit_size, TRUE))

InitValid ==
    /\ structs = <<>>
    /\ classdict = NoClassdict
    /\ self = <<>>
    /\ last = [op |-> "start"]

\* BitSizeValidator(n)(value)
BitSizeCall ==
    /\ \E n \in 0..MaxBits, value \in (-1)..(2 ^ MaxBits + 1) :
         LET validator == BitSizeValidator(n) IN
         last' = [op |-> "bitsize", n |-> n, value |-> value,
                  constructed |-> validator.ok,
                  accepted |-> validator.ok
                                 /\ IntRangeValidator_call(validator.v, value)]
    /\ UNCHANGED <<structs, classdict, self>>

\* IntRangeValidator(min, max, inclusive)(value)
IntRangeCall ==
    /\ \E min_val \in (-1)..1, max_val \in 0..MaxBits, inclusive \in BOOLEAN,
          value \in (-2)..(MaxBits + 2) :
         last' = [op |-> "intrange", min |-> min_val, max |-> max_val,
                  inclusive |-> inclusive, value |-> value,
                  accepted |-> IntRangeValidator_call(
                                   IntRangeValidator(min_val, max_val, inclusive),
                                   value)]
    /\ UNCHANGED <<structs, classdict, self>>

NextValid == BitSizeCall \/ IntRangeCall

SpecValid == InitValid /\ [][NextValid]_vars

\* C30: BitSizeValidator(n), n >= 1, accepts value iff 0 <= value < 2^n;
\* IntRangeValidator(min, max), inclusive, accepts iff min <= value <= max.
C30_ValidatorRanges ==
    /\ (last.op = "bitsize" /\ last.n >= 1)
         => /\ last.constructed
            /\ last.accepted <=> (0 <= last.value /\ last.value < 2 ^ last.n)
    /\ (last.op = "intrange" /\ last.inclusive)
         => (last.accepted <=> (last.min <= last.value /\ last.value <= last.max))

\* The IntRangeValidator half of C30
C30_IntRangeInclusive ==
    (last.op = "intrange" /\ last.inclusive)
       => (last.accepted <=> (last.min <= last.value /\ last.value <= last.max))

====
